---- MODULE Spec2Model ----
(***************************************************************************)
(* A model of the FEF binary codec (fef-rs, module v0): the variable       *)
(* length enum ("varint") reader and its ordering, the token tables, the   *)
(* configuration and metadata section readers and the expression codec.    *)
(*                                                                         *)
(* Conventions.  A byte stream is a sequence of numbers 0..255; a reader   *)
(* over it is the triple (s, p, lim): the bytes, the number of bytes       *)
(* already consumed, and the number of bytes the reader may consume at     *)
(* most (Len(s) for a plain slice reader, less for a std::io::Take).       *)
(* A u64 is the tuple <<w3, w2, w1, w0>> of its four 16-bit words, most    *)
(* significant first, because TLC's integers are 32 bits wide.  usize is   *)
(* taken to be 64 bits wide.                                               *)
(***************************************************************************)
EXTENDS Integers, Sequences, FiniteSets, TLC

VARIABLES
    stream,      \* the bytes behind the reader
    pos,         \* cursor of the reader: bytes consumed so far
    pc,          \* control location of the caller
    results,     \* varint scenario: results of the consecutive read_from calls
    pad,         \* varint scenario: number of 0x80 bytes in front of the stream
    plain,       \* varint scenario: result of the reader that skipped the padding
    ord,         \* compare scenario: result of cmp on the two values read
    toks,        \* token scenario: the tokens the caller writes
    written,     \* token scenario: the bytes each write_to call emitted
    tree,        \* expression scenario: the tree the caller has built
    parsed,      \* expression scenario: result of parse_expression_into_tree
    input,       \* section scenarios: the parts the stream was put together from
    remaining,   \* section scenarios: configurations or records still to be read
    output,      \* section scenarios: what the section reader has returned
    limited_reader  \* metadata scenario: bytes the iterator's Take may still give

vars == <<stream, pos, pc, results, pad, plain, ord, toks, written, tree, parsed,
          input, remaining, output, limited_reader>>

\* the variables of the scenarios other than the varint one
notVarint == <<ord, toks, written, tree, parsed, input, remaining, output,
              limited_reader>>

\* the variables of the scenarios other than the compare one
notCmp == <<pad, plain, toks, written, tree, parsed, input, remaining, output,
           limited_reader>>

\* the variables of the scenarios other than the token one
notToken == <<pad, plain, ord, tree, parsed, input, remaining, output,
             limited_reader>>

\* the variables of the scenarios other than the expression one
notExpr == <<results, pad, plain, ord, toks, written, input, remaining, output,
            limited_reader>>

\* the variables of the scenarios other than the configuration one
notConfig == <<pad, plain, ord, toks, written, tree, parsed, limited_reader>>

\* the variables of the scenarios other than the metadata one
notMeta == <<pad, plain, ord, toks, written, tree, parsed>>

\* the variables of the scenarios other than the metadata writer one
notMetaWrite == <<pad, plain, ord, toks, tree, parsed, limited_reader>>

(***************************************************************************)
(* Bounds of the model.                                                    *)
(***************************************************************************)
MaxPad == 2
MaxFill == 9
MaxReads == 2

(***************************************************************************)
(* Helpers on sequences.                                                   *)
(***************************************************************************)
Rep(b, n) == [i \in 1..n |-> b]

Min(x, y) == IF x <= y THEN x ELSE y

\* F of the value of x, with x worked out once: a local binding
Bind(x, F(_)) == CHOOSE y \in {F(v) : v \in {x}} : TRUE

None == [some |-> FALSE]

Some(x) == [some |-> TRUE, v |-> x]

(***************************************************************************)
(* u64 arithmetic on four 16-bit words.                                    *)
(***************************************************************************)
Word == 2 ^ 16

U64Zero == <<0, 0, 0, 0>>

RECURSIVE BitLen(_)
BitLen(n) == IF n = 0 THEN 0 ELSE 1 + BitLen(n \div 2)

\* u64::leading_zeros
LeadingZeros(x) ==
    IF x[1] # 0 THEN 16 - BitLen(x[1])
    ELSE IF x[2] # 0 THEN 32 - BitLen(x[2])
    ELSE IF x[3] # 0 THEN 48 - BitLen(x[3])
    ELSE 64 - BitLen(x[4])

\* inner << 7 | d for a 7-bit d: the bits shifted out at the top are lost
Shl7Or(x, d) ==
    LET t4 == x[4] * 128 + d
        t3 == x[3] * 128 + (t4 \div Word)
        t2 == x[2] * 128 + (t3 \div Word)
        t1 == x[1] * 128 + (t2 \div Word)
    IN  <<t1 % Word, t2 % Word, t3 % Word, t4 % Word>>

\* u64::cmp
U64Cmp(x, y) ==
    LET d == {i \in 1..4 : x[i] # y[i]}
    IN  IF d = {} THEN "Equal"
        ELSE LET i == CHOOSE j \in d : \A k \in d : j <= k
             IN  IF x[i] < y[i] THEN "Less" ELSE "Greater"

\* value as u64, for a usize below 2^31
FromNat(n) == <<0, 0, n \div Word, n % Word>>

\* a u64 small enough to be a number of the model
IsSmall(x) == x[1] = 0 /\ x[2] = 0 /\ x[3] < 2 ^ 14

ToNat(x) == x[3] * Word + x[4]

(***************************************************************************)
(* VariableLengthEnum: storage and reader (v0/raw/variable_length_enum.rs) *)
(***************************************************************************)
StorageU64(v) == [tag |-> "U64", v |-> v]

StorageOverflow(bytes) == [tag |-> "Overflow", bytes |-> bytes]

\* From<usize> for VariableLengthEnum
VleFrom(n) == StorageU64(FromNat(n))

\* Result::Ok and Result::Err of a conversion
Ok(x) == [ok |-> TRUE, v |-> x]

Err(e) == [ok |-> FALSE, err |-> e]

\* Result::Ok and Result::Err of a read, with the cursor it leaves
ReadOk(value, p) == [ok |-> TRUE, value |-> value, pos |-> p]

ReadErr(err, p) == [ok |-> FALSE, err |-> err, pos |-> p]

\* mutant: the overflow test is off by one bit
VleAccumulate_OffByOne(accumulator, byte) ==
    IF accumulator.some
    THEN IF LeadingZeros(accumulator.v) < 8
         THEN None
         ELSE Some(Shl7Or(accumulator.v, byte % 128))
    ELSE None

\* the accumulator update of one non-padding byte
VleAccumulate(accumulator, byte) ==
    IF accumulator.some
    THEN IF LeadingZeros(accumulator.v) < 7
         THEN None
         ELSE Some(Shl7Or(accumulator.v, byte % 128))
    ELSE None

\* mutant: no byte is dropped as padding
VleIsPadding_Never(byte, byte_vec) == FALSE

\* whether the byte just read is dropped as padding
VleIsPadding(byte, byte_vec) == byte = 128 /\ byte_vec = <<>>

\* mutant: a byte 0x80 ends the varint too
VleIsLast_Incl(byte) == byte <= 128

\* whether the byte just read ends the varint
VleIsLast(byte) == byte < 128

\* the value returned after the loop
VleFinish(accumulator, byte_vec) ==
    IF accumulator.some
    THEN StorageU64(accumulator.v)
    ELSE StorageOverflow(byte_vec)

RECURSIVE VleLoop(_, _, _, _, _)
VleLoop(s, p, lim, byte_vec, accumulator) ==
    IF p >= lim
    THEN ReadErr("UnexpectedEof", p)
    ELSE LET byte == s[p + 1]
         IN  IF VleIsPadding(byte, byte_vec)
             THEN VleLoop(s, p + 1, lim, byte_vec, accumulator)
             ELSE LET vec == Append(byte_vec, byte)
                      acc == VleAccumulate(accumulator, byte)
                  IN  IF VleIsLast(byte)
                      THEN ReadOk(VleFinish(acc, vec), p + 1)
                      ELSE VleLoop(s, p + 1, lim, vec, acc)

\* mutant: at the end of the stream the digits read so far are the value
VleReadFrom_EofEnds(s, p, lim) ==
    Bind(VleLoop(s, p, lim, <<>>, Some(U64Zero)), LAMBDA r :
        IF r.ok THEN r ELSE ReadOk(StorageU64(U64Zero), r.pos))

\* VariableLengthEnum::read_from on the reader (s, p, lim)
VleReadFrom(s, p, lim) == VleLoop(s, p, lim, <<>>, Some(U64Zero))

\* TryInto<usize> for VariableLengthEnum
VleTryIntoUsize(value) ==
    IF value.tag = "U64" THEN Ok(value.v) ELSE Err("TooBig")

(***************************************************************************)
(* Varint scenario: a slice reader over pad bytes 0x80, one encoding and a *)
(* tail; the caller reads varints one after the other, and a second        *)
(* reader first skips the pad bytes and then reads one varint.             *)
(***************************************************************************)
\* a leading byte or none, up to MaxFill bytes 0x80 or 0xFF, a last byte
\* or none, and the bytes that follow the encoding in the stream
VarintEncodings ==
    {l \o Rep(f, n) \o t \o tail :
        l \in {<<>>, <<129>>, <<130>>, <<255>>},
        f \in {128, 255},
        n \in 0..MaxFill,
        t \in {<<>>, <<0>>, <<42>>, <<127>>},
        tail \in {<<>>, <<18>>, <<128, 42, 18>>}}

InitVarint ==
    /\ pad \in 0..MaxPad
    /\ stream \in {Rep(128, pad) \o e : e \in VarintEncodings}
    /\ pos = 0
    /\ pc = "varint"
    /\ results = <<>>
    /\ plain = None
    /\ ord = None
    /\ toks = <<>>
    /\ written = <<>>
    /\ tree = None
    /\ parsed = None
    /\ input = None
    /\ remaining = 0
    /\ output = None
    /\ limited_reader = 0

\* one more VariableLengthEnum::read_from on the same reader
ReadNext ==
    /\ pc = "varint"
    /\ Len(results) < MaxReads
    /\ IF results = <<>> THEN TRUE ELSE results[Len(results)].res.ok
    /\ LET r == VleReadFrom(stream, pos, Len(stream))
       IN  /\ results' = Append(results, [start |-> pos, res |-> r])
           /\ pos' = r.pos
    /\ UNCHANGED <<stream, pc, pad, plain, notVarint>>

\* a second reader over the same bytes skips the pad bytes, then reads
SkipPadAndRead ==
    /\ pc = "varint"
    /\ ~plain.some
    /\ plain' = Some(VleReadFrom(stream, pad, Len(stream)))
    /\ UNCHANGED <<stream, pos, pc, results, pad, notVarint>>

NextVarint == ReadNext \/ SkipPadAndRead

SpecVarint == InitVarint /\ [][NextVarint]_vars

(***************************************************************************)
(* The number an encoding stands for, computed from its bytes bit by bit.  *)
(***************************************************************************)
\* the bytes the read consumed
Consumed(r) == SubSeq(stream, r.start + 1, r.res.pos)

RECURSIVE StripPad(_)
StripPad(bs) ==
    IF bs # <<>> /\ bs[1] = 128 THEN StripPad(Tail(bs)) ELSE bs

\* the base-128 digits of an encoding, most significant first
DigitsOf(bs) == [i \in 1..Len(bs) |-> bs[i] % 128]

RECURSIVE TrimZeros(_)
TrimZeros(d) ==
    IF d # <<>> /\ d[1] = 0 THEN TrimZeros(Tail(d)) ELSE d

\* number of significant bits of the number with digits d
NumBits(d) ==
    LET t == TrimZeros(d)
    IN  IF t = <<>> THEN 0 ELSE 7 * (Len(t) - 1) + BitLen(t[1])

\* bit i (0 the least significant) of the number with digits d
BitOf(d, i) ==
    LET k == i \div 7
    IN  IF k < Len(d) THEN (d[Len(d) - k] \div (2 ^ (i % 7))) % 2 ELSE 0

RECURSIVE WordBits(_, _, _)
WordBits(d, j, b) ==
    IF b < 0 THEN 0
    ELSE BitOf(d, 16 * j + b) * (2 ^ b) + WordBits(d, j, b - 1)

\* the number with digits d as a u64 (for a number below 2^64)
ValueWords(d) ==
    <<WordBits(d, 3, 15), WordBits(d, 2, 15), WordBits(d, 1, 15), WordBits(d, 0, 15)>>

OkResults == {i \in DOMAIN results : results[i].res.ok}

\* C6: k bytes 0x80 in front of an encoding E do not change what is decoded:
\* the reader that starts at the padding and the reader that starts at E
\* both fail or both succeed, and then with the same value.
C6_PaddingIgnored ==
    (plain.some /\ results # <<>>) =>
        /\ results[1].res.ok = plain.v.ok
        /\ results[1].res.ok => results[1].res.value = plain.v.value

C6_Witness ==
    /\ pad >= 2
    /\ plain.some /\ plain.v.ok
    /\ results # <<>> /\ results[1].res.ok
    /\ results[1].res.value = VleFrom(42)

\* the index of the first byte after p whose high bit is clear (0: none)
FirstClear(s, p) ==
    LET clear == {j \in (p + 1)..Len(s) : s[j] < 128}
    IN  IF clear = {} THEN 0
        ELSE CHOOSE j \in clear : \A k \in clear : j <= k

\* C7: a successful read ends right after the first byte whose high bit is
\* clear, the next read starts there, and the cursor is where the last read
\* ended.
C7_StopsAtTerminal ==
    /\ \A i \in OkResults :
          /\ results[i].res.pos = FirstClear(stream, results[i].start)
          /\ (i + 1) \in DOMAIN results => results[i + 1].start = results[i].res.pos
    /\ results # <<>> => pos = results[Len(results)].res.pos

C7_Witness ==
    /\ Len(results) = 2
    /\ results[1].res.ok /\ results[2].res.ok
    /\ results[2].start > 0
    /\ pos < Len(stream)

\* C8: a decoded value below 2^64 is the U64 form holding exactly that
\* value; a value of 2^64 or more is the Overflow form holding the bytes of
\* the encoding without the leading padding.
C8_FastPathIffFits ==
    \A i \in OkResults :
        LET e == StripPad(Consumed(results[i]))
            d == DigitsOf(e)
        IN  IF NumBits(d) <= 64
            THEN results[i].res.value = StorageU64(ValueWords(d))
            ELSE results[i].res.value = StorageOverflow(e)

C8_Witness ==
    \E i \in OkResults :
        /\ results[i].res.value.tag = "Overflow"
        /\ NumBits(DigitsOf(results[i].res.value.bytes)) = 65

C8_WitnessFits ==
    \E i \in OkResults :
        /\ results[i].res.value.tag = "U64"
        /\ NumBits(DigitsOf(StripPad(Consumed(results[i])))) = 64

\* the stream has no byte with a clear high bit after position p
NoTerminalAfter(p) == FirstClear(stream, p) = 0

\* C11: a read of a varint on a stream that ends before a byte with a clear
\* high bit - a stream of 0x80 padding alone included - returns the stream
\* error UnexpectedEof and no value; this holds for every read of the
\* caller and for the reader that starts after the padding.
C11_TruncatedIsError ==
    /\ \A i \in DOMAIN results :
          NoTerminalAfter(results[i].start) =>
              ~results[i].res.ok /\ results[i].res.err = "UnexpectedEof"
    /\ (plain.some /\ NoTerminalAfter(pad)) =>
          ~plain.v.ok /\ plain.v.err = "UnexpectedEof"

\* a stream of padding alone has been read
C11_Witness ==
    /\ pad = 2 /\ Len(stream) = 5
    /\ \A j \in DOMAIN stream : stream[j] = 128
    /\ Len(results) = 1 /\ ~results[1].res.ok
    /\ pos = Len(stream)

\* a stream cut in the middle of a varint has been read
C11_WitnessCut ==
    /\ pad = 0 /\ Len(stream) = 3
    /\ stream[1] = 130 /\ stream[3] = 255
    /\ Len(results) = 1 /\ ~results[1].res.ok
    /\ pos = Len(stream)

(***************************************************************************)
(* Ord for VariableLengthEnumStorage (v0/raw/variable_length_enum.rs).     *)
(***************************************************************************)
\* usize::cmp
NatCmp(x, y) == IF x < y THEN "Less" ELSE IF x > y THEN "Greater" ELSE "Equal"

\* slice.iter().rev()
Rev(s) == [i \in 1..Len(s) |-> s[Len(s) + 1 - i]]

\* Iterator::cmp: lexicographic, a proper prefix is Less
RECURSIVE IterCmp(_, _)
IterCmp(x, y) ==
    IF x = <<>> THEN (IF y = <<>> THEN "Equal" ELSE "Less")
    ELSE IF y = <<>> THEN "Greater"
    ELSE IF Head(x) # Head(y) THEN NatCmp(Head(x), Head(y))
    ELSE IterCmp(Tail(x), Tail(y))

\* mutant: two values that fit 64 bits are compared the wrong way round
VleCmpU64_Swapped(x, y) == U64Cmp(y, x)

\* cmp of two values that fit 64 bits
VleCmpU64(x, y) == U64Cmp(x, y)

\* cmp of two overflow byte vectors
VleCmpOverflow(x, y) ==
    LET len_cmp == NatCmp(Len(x), Len(y))
    IN  IF len_cmp # "Equal" THEN len_cmp
        ELSE IterCmp(Rev(x), Rev(y))

\* Ord::cmp for VariableLengthEnumStorage
VleCmp(self, other) ==
    IF self.tag = "U64"
    THEN IF other.tag = "U64" THEN VleCmpU64(self.v, other.v) ELSE "Less"
    ELSE IF other.tag = "U64" THEN "Greater"
         ELSE VleCmpOverflow(self.bytes, other.bytes)

(***************************************************************************)
(* Compare scenario: two varints are read one after the other from a slice *)
(* reader and compared.                                                    *)
(***************************************************************************)
\* a leading byte or none, up to MaxFill bytes 0x80 or 0xFF, a last byte
CmpEncodings ==
    {l \o Rep(f, n) \o t :
        l \in {<<>>, <<129>>, <<130>>, <<131>>},
        f \in {128, 255},
        n \in 0..MaxFill,
        t \in {<<0>>, <<1>>}}

InitCmp ==
    /\ stream \in {a \o b : a \in CmpEncodings, b \in CmpEncodings}
    /\ pos = 0
    /\ pc = "cmp"
    /\ results = <<>>
    /\ ord = None
    /\ pad = 0
    /\ plain = None
    /\ toks = <<>>
    /\ written = <<>>
    /\ tree = None
    /\ parsed = None
    /\ input = None
    /\ remaining = 0
    /\ output = None
    /\ limited_reader = 0

\* VariableLengthEnum::read_from of the next operand
CmpRead ==
    /\ pc = "cmp"
    /\ Len(results) < 2
    /\ LET r == VleReadFrom(stream, pos, Len(stream))
       IN  /\ results' = Append(results, [start |-> pos, res |-> r])
           /\ pos' = r.pos
    /\ UNCHANGED <<stream, pc, ord, notCmp>>

\* a.cmp(&b) on the two values read
CmpCompare ==
    /\ pc = "cmp"
    /\ Len(results) = 2
    /\ results[1].res.ok /\ results[2].res.ok
    /\ ord' = Some(VleCmp(results[1].res.value, results[2].res.value))
    /\ pc' = "compared"
    /\ UNCHANGED <<stream, pos, results, notCmp>>

NextCmp == CmpRead \/ CmpCompare

SpecCmp == InitCmp /\ [][NextCmp]_vars

(***************************************************************************)
(* The numeric order of two encodings, from their base-128 digits.         *)
(***************************************************************************)
\* the digits of operand i without leading zero digits
Magnitude(i) == TrimZeros(DigitsOf(Consumed(results[i])))

\* x < y for two digit strings without leading zeros
NumLess(x, y) ==
    \/ Len(x) < Len(y)
    \/ /\ Len(x) = Len(y)
       /\ \E i \in 1..Len(x) :
             /\ x[i] < y[i]
             /\ \A j \in 1..(i - 1) : x[j] = y[j]

NumCmp(x, y) ==
    IF NumLess(x, y) THEN "Less" ELSE IF NumLess(y, x) THEN "Greater" ELSE "Equal"

Fits(i) == results[i].res.value.tag = "U64"

\* C9: two values that fit 64 bits compare as their numbers do (a < b iff
\* cmp says Less, and likewise for Greater and Equal), and a value in
\* overflow form is greater than every value that fits 64 bits.
C9_OrderMatchesNumbers ==
    ord.some =>
        /\ (Fits(1) /\ Fits(2)) =>
              /\ (ord.v = "Less") <=> NumLess(Magnitude(1), Magnitude(2))
              /\ ord.v = NumCmp(Magnitude(1), Magnitude(2))
        /\ (~Fits(1) /\ Fits(2)) => ord.v = "Greater"
        /\ (Fits(1) /\ ~Fits(2)) => ord.v = "Less"

C9_Witness ==
    /\ ord.some /\ ord.v = "Less"
    /\ Fits(1) /\ Fits(2)
    /\ NumBits(Magnitude(1)) = 64 /\ NumBits(Magnitude(2)) = 64

C9_WitnessOverflow ==
    /\ ord.some /\ ord.v = "Greater"
    /\ ~Fits(1) /\ Fits(2)
    /\ NumBits(Magnitude(2)) = 64

\* C10: two values that are both in overflow form compare as their numeric
\* magnitudes do (byte length first, then the bytes most significant first).
C10_OverflowOrderIsNumeric ==
    (ord.some /\ ~Fits(1) /\ ~Fits(2)) =>
        ord.v = NumCmp(Magnitude(1), Magnitude(2))

\* what the code does instead: at equal length the bytes are compared from
\* the least significant one
C10_OverflowOrderIsReversed ==
    (ord.some /\ ~Fits(1) /\ ~Fits(2)) =>
        LET x == results[1].res.value.bytes
            y == results[2].res.value.bytes
        IN  ord.v = IF Len(x) # Len(y) THEN NatCmp(Len(x), Len(y))
                    ELSE NumCmp(Rev(x), Rev(y))

(***************************************************************************)
(* The varint writer.  WriteTo for VariableLengthEnum is in no file of the *)
(* repository; it is modelled from the wire format: big-endian base-128    *)
(* groups, the high bit set on every byte but the last, no padding; an     *)
(* overflow value is written as the bytes it holds.                        *)
(***************************************************************************)
\* x >> 7
U64Shr7(x) ==
    <<x[1] \div 128,
      (x[1] % 128) * 512 + x[2] \div 128,
      (x[2] % 128) * 512 + x[3] \div 128,
      (x[3] % 128) * 512 + x[4] \div 128>>

\* the base-128 digits of x, most significant first, at least one
RECURSIVE VleDigits(_)
VleDigits(x) ==
    IF x[1] = 0 /\ x[2] = 0 /\ x[3] = 0 /\ x[4] < 128
    THEN <<x[4]>>
    ELSE Append(VleDigits(U64Shr7(x)), x[4] % 128)

\* VariableLengthEnum::write_to: the bytes written
VleWriteTo(value) ==
    IF value.tag = "U64"
    THEN LET d == VleDigits(value.v)
         IN  [i \in 1..Len(d) |-> IF i < Len(d) THEN d[i] + 128 ELSE d[i]]
    ELSE value.bytes

(***************************************************************************)
(* ExprToken (v0/tokens/expr.rs).                                          *)
(***************************************************************************)
ExprUnaryTokens ==
    {"Negation", "Square", "Cube", "SquareRoot", "CubeRoot", "Reciprocal"}

ExprBinaryTokens ==
    {"Addition", "Subtraction", "Multiplication", "Division", "IntDivision",
     "Modulo", "Power", "Root", "IntRoot"}

ExprLeafTokens ==
    {"Variable", "TrueLiteral", "FalseLiteral",
     "SignedIntLiteral8", "SignedIntLiteral16", "SignedIntLiteral32",
     "SignedIntLiteral64", "UnsignedIntLiteral8", "UnsignedIntLiteral16",
     "UnsignedIntLiteral32", "UnsignedIntLiteral64",
     "BinaryFloatLiteral32", "BinaryFloatLiteral64"}

\* the variants of enum ExprToken
ExprTokens == ExprUnaryTokens \cup ExprBinaryTokens \cup ExprLeafTokens

\* `token as usize`: the discriminants of enum ExprToken
ExprTokenAsUsize(token) ==
    CASE token = "Variable" -> \H04
      [] token = "TrueLiteral" -> \H0A
      [] token = "FalseLiteral" -> \H0B
      [] token = "Addition" -> \H10
      [] token = "Subtraction" -> \H11
      [] token = "Multiplication" -> \H12
      [] token = "Division" -> \H13
      [] token = "IntDivision" -> \H14
      [] token = "Modulo" -> \H15
      [] token = "Power" -> \H16
      [] token = "Negation" -> \H17
      [] token = "Root" -> \H18
      [] token = "IntRoot" -> \H19
      [] token = "Square" -> \H20
      [] token = "Cube" -> \H21
      [] token = "SquareRoot" -> \H22
      [] token = "CubeRoot" -> \H23
      [] token = "Reciprocal" -> \H24
      [] token = "SignedIntLiteral8" -> \H30
      [] token = "SignedIntLiteral16" -> \H31
      [] token = "SignedIntLiteral32" -> \H33
      [] token = "SignedIntLiteral64" -> \H34
      [] token = "UnsignedIntLiteral8" -> \H38
      [] token = "UnsignedIntLiteral16" -> \H39
      [] token = "UnsignedIntLiteral32" -> \H3B
      [] token = "UnsignedIntLiteral64" -> \H3CF
      [] token = "BinaryFloatLiteral32" -> \H42
      [] token = "BinaryFloatLiteral64" -> \H43

\* TryFrom<usize> for ExprToken
ExprTokenTryFromUsize(value) ==
    CASE value = \H04 -> Ok("Variable")
      [] value = \H0A -> Ok("TrueLiteral")
      [] value = \H0B -> Ok("FalseLiteral")
      [] value = \H10 -> Ok("Addition")
      [] value = \H11 -> Ok("Subtraction")
      [] value = \H12 -> Ok("Multiplication")
      [] value = \H13 -> Ok("Division")
      [] value = \H14 -> Ok("IntDivision")
      [] value = \H15 -> Ok("Modulo")
      [] value = \H16 -> Ok("Power")
      [] value = \H17 -> Ok("Negation")
      [] value = \H18 -> Ok("Root")
      [] value = \H19 -> Ok("IntRoot")
      [] value = \H20 -> Ok("Square")
      [] value = \H21 -> Ok("Cube")
      [] value = \H22 -> Ok("SquareRoot")
      [] value = \H23 -> Ok("CubeRoot")
      [] value = \H24 -> Ok("Reciprocal")
      [] value = \H30 -> Ok("SignedIntLiteral8")
      [] value = \H31 -> Ok("SignedIntLiteral16")
      [] value = \H33 -> Ok("SignedIntLiteral32")
      [] value = \H34 -> Ok("SignedIntLiteral64")
      [] value = \H38 -> Ok("UnsignedIntLiteral8")
      [] value = \H39 -> Ok("UnsignedIntLiteral16")
      [] value = \H3B -> Ok("UnsignedIntLiteral32")
      [] value = \H3C -> Ok("UnsignedIntLiteral64")
      [] value = \H42 -> Ok("BinaryFloatLiteral32")
      [] value = \H43 -> Ok("BinaryFloatLiteral64")
      [] OTHER -> Err("IdentifierNotRecognized")

\* mutant: an identifier in no table is taken for the constant true
ExprTokenTryFromVle_Lenient(value) ==
    LET identifier == VleTryIntoUsize(value)
    IN  IF ~identifier.ok \/ ~IsSmall(identifier.v) THEN Ok("TrueLiteral")
        ELSE LET token == ExprTokenTryFromUsize(ToNat(identifier.v))
             IN  IF token.ok THEN token ELSE Ok("TrueLiteral")

\* TryFrom<VariableLengthEnum> for ExprToken; a usize too large to be a
\* number of the model is in no table
ExprTokenTryFromVle(value) ==
    LET identifier == VleTryIntoUsize(value)
    IN  IF ~identifier.ok THEN Err("IdentifierTooLarge")
        ELSE IF ~IsSmall(identifier.v) THEN Err("IdentifierNotRecognized")
        ELSE ExprTokenTryFromUsize(ToNat(identifier.v))

\* ExprToken::read_from
ExprTokenReadFrom(s, p, lim) ==
    LET identifier == VleReadFrom(s, p, lim)
    IN  IF ~identifier.ok THEN identifier
        ELSE LET token == ExprTokenTryFromVle(identifier.value)
             IN  IF token.ok THEN ReadOk(token.v, identifier.pos)
                 ELSE ReadErr(token.err, identifier.pos)

\* ExprToken::write_to: the bytes written
ExprTokenWriteTo(token) == VleWriteTo(VleFrom(ExprTokenAsUsize(token)))

(***************************************************************************)
(* Token scenario: the caller writes two tokens to a buffer, then reads    *)
(* two tokens back from it.                                                *)
(***************************************************************************)
InitToken ==
    /\ toks \in {<<a, b>> : a \in ExprTokens, b \in ExprTokens}
    /\ stream = <<>>
    /\ pos = 0
    /\ pc = "token"
    /\ results = <<>>
    /\ written = <<>>
    /\ pad = 0
    /\ plain = None
    /\ ord = None
    /\ tree = None
    /\ parsed = None
    /\ input = None
    /\ remaining = 0
    /\ output = None
    /\ limited_reader = 0

\* token.write_to(&mut writer) of the next token
TokenWrite ==
    /\ pc = "token"
    /\ Len(written) < Len(toks)
    /\ LET bytes == ExprTokenWriteTo(toks[Len(written) + 1])
       IN  /\ stream' = stream \o bytes
           /\ written' = Append(written, bytes)
    /\ UNCHANGED <<pos, pc, results, toks, notToken>>

\* ExprToken::read_from(&mut reader) over the bytes written
TokenRead ==
    /\ pc = "token"
    /\ Len(written) = Len(toks)
    /\ Len(results) < Len(toks)
    /\ LET r == ExprTokenReadFrom(stream, pos, Len(stream))
       IN  /\ results' = Append(results, [start |-> pos, res |-> r])
           /\ pos' = r.pos
    /\ UNCHANGED <<stream, pc, toks, written, notToken>>

NextToken == TokenWrite \/ TokenRead

SpecToken == InitToken /\ [][NextToken]_vars

\* C3: every token read back is the token written at that place, and two
\* different tokens are written as different identifiers.
C3_TokenBijection ==
    /\ \A i \in DOMAIN results :
          results[i].res.ok /\ results[i].res.value = toks[i]
    /\ \A i, j \in DOMAIN written :
          toks[i] # toks[j] => written[i] # written[j]

\* what holds instead: every token but UnsignedIntLiteral64 is read back
C3_AllButUnsigned64 ==
    /\ \A i \in DOMAIN results :
          IF toks[i] = "UnsignedIntLiteral64"
          THEN ~results[i].res.ok /\ results[i].res.err = "IdentifierNotRecognized"
          ELSE results[i].res.ok /\ results[i].res.value = toks[i]
    /\ \A i, j \in DOMAIN written :
          toks[i] # toks[j] => written[i] # written[j]

(***************************************************************************)
(* Fixed-width numbers.  An i64 is the u64 with the same bits; an f32 is   *)
(* <<sign, exp, frac>> with a 23-bit frac; an f64 is <<sign, exp, f3, f2,  *)
(* f1, f0>>, its frac cut into a 4-bit group and three 16-bit words.       *)
(***************************************************************************)
U64Le(x, y) == U64Cmp(x, y) # "Greater"

\* i64::cmp on the bit patterns: the sign bit is flipped, then u64::cmp
I64Le(x, y) ==
    LET flip(z) == <<(z[1] + 2 ^ 15) % Word, z[2], z[3], z[4]>>
    IN  U64Le(flip(x), flip(y))

U8_MAX == FromNat(255)

U16_MAX == FromNat(65535)

U32_MAX == <<0, 0, 65535, 65535>>

I8_MIN == <<65535, 65535, 65535, 65535 - 127>>

I8_MAX == FromNat(127)

I16_MIN == <<65535, 65535, 65535, 32768>>

I16_MAX == FromNat(32767)

I32_MIN == <<65535, 65535, 32768, 0>>

I32_MAX == <<0, 0, 32767, 65535>>

\* (value as uN).to_be_bytes() for N = 8 * n: the low n bytes, big-endian
ToBeBytes(x, n) ==
    LET all == <<x[1] \div 256, x[1] % 256, x[2] \div 256, x[2] % 256,
                 x[3] \div 256, x[3] % 256, x[4] \div 256, x[4] % 256>>
    IN  SubSeq(all, 9 - n, 8)

\* uN::from_be_bytes(bytes) as u64 (fill = 0) and iN::from_be_bytes(bytes)
\* as i64 (fill = 0xFF for a negative number)
FromBeBytes(bytes, fill) ==
    LET all == Rep(fill, 8 - Len(bytes)) \o bytes
    IN  <<all[1] * 256 + all[2], all[3] * 256 + all[4],
          all[5] * 256 + all[6], all[7] * 256 + all[8]>>

\* f32::to_be_bytes
F32ToBeBytes(f) ==
    <<f[1] * 128 + f[2] \div 2,
      (f[2] % 2) * 128 + f[3] \div Word,
      (f[3] \div 256) % 256,
      f[3] % 256>>

\* f32::from_be_bytes
F32FromBeBytes(b) ==
    <<b[1] \div 128,
      (b[1] % 128) * 2 + b[2] \div 128,
      (b[2] % 128) * Word + b[3] * 256 + b[4]>>

\* f64::to_be_bytes
F64ToBeBytes(f) ==
    <<f[1] * 128 + f[2] \div 16,
      (f[2] % 16) * 16 + f[3],
      f[4] \div 256, f[4] % 256,
      f[5] \div 256, f[5] % 256,
      f[6] \div 256, f[6] % 256>>

\* f64::from_be_bytes
F64FromBeBytes(b) ==
    <<b[1] \div 128,
      (b[1] % 128) * 16 + b[2] \div 16,
      b[2] % 16, b[3] * 256 + b[4], b[5] * 256 + b[6], b[7] * 256 + b[8]>>

\* PartialEq for f32 and f64: a NaN equals nothing, the two zeros are equal
FloatEq(a, b, maxExp) ==
    LET nan(f) == f[2] = maxExp /\ \E i \in 3..Len(f) : f[i] # 0
        zero(f) == f[2] = 0 /\ \A i \in 3..Len(f) : f[i] = 0
    IN  /\ ~nan(a)
        /\ ~nan(b)
        /\ (zero(a) /\ zero(b)) \/ a = b

\* mutant: the bytes are taken and the reader is drained to its end
ReadExact_Drain(s, p, lim, n) ==
    IF p + n <= lim THEN ReadOk(SubSeq(s, p + 1, p + n), lim)
    ELSE ReadErr("UnexpectedEof", lim)

\* reader.read_exact(&mut [0u8; n])
ReadExact(s, p, lim, n) ==
    IF p + n <= lim THEN ReadOk(SubSeq(s, p + 1, p + n), p + n)
    ELSE ReadErr("UnexpectedEof", lim)

(***************************************************************************)
(* The expression codec (v0/expr).  A tree is a record with its kind and,  *)
(* by kind: id (Variable), value (literals), inner (unary operators),      *)
(* lhs and rhs (binary operators).  An operator's kind is named as its     *)
(* token.                                                                  *)
(***************************************************************************)
\* ExprObj::token for ExprUnsignedIntLiteral
ExprUnsignedToken(value) ==
    IF U64Le(value, U8_MAX) THEN "UnsignedIntLiteral8"
    ELSE IF U64Le(value, U16_MAX) THEN "UnsignedIntLiteral16"
    ELSE IF U64Le(value, U32_MAX) THEN "UnsignedIntLiteral32"
    ELSE "UnsignedIntLiteral64"

\* ExprObj::token for ExprSignedIntLiteral
ExprSignedToken(value) ==
    IF I64Le(I8_MIN, value) /\ I64Le(value, I8_MAX) THEN "SignedIntLiteral8"
    ELSE IF I64Le(I16_MIN, value) /\ I64Le(value, I16_MAX) THEN "SignedIntLiteral16"
    ELSE IF I64Le(I32_MIN, value) /\ I64Le(value, I32_MAX) THEN "SignedIntLiteral32"
    ELSE "SignedIntLiteral64"

\* Expr::token
ExprTokenOf(expr) ==
    CASE expr.kind = "UnsignedIntLiteral" -> ExprUnsignedToken(expr.value)
      [] expr.kind = "SignedIntLiteral" -> ExprSignedToken(expr.value)
      [] expr.kind = "BinaryFloat32Literal" -> "BinaryFloatLiteral32"
      [] expr.kind = "BinaryFloat64Literal" -> "BinaryFloatLiteral64"
      [] OTHER -> expr.kind

\* try_write_with_decomposer for ExprUnsignedIntLiteral
ExprUnsignedWrite(value) ==
    IF U64Le(value, U8_MAX) THEN ToBeBytes(value, 1)
    ELSE IF U64Le(value, U16_MAX) THEN ToBeBytes(value, 2)
    ELSE IF U64Le(value, U32_MAX) THEN ToBeBytes(value, 4)
    ELSE ToBeBytes(value, 8)

\* mutant: a signed literal is always written in eight bytes
ExprSignedWrite_Always64(value) == ToBeBytes(value, 8)

\* try_write_with_decomposer for ExprSignedIntLiteral
ExprSignedWrite(value) ==
    IF I64Le(I8_MIN, value) /\ I64Le(value, I8_MAX) THEN ToBeBytes(value, 1)
    ELSE IF I64Le(I16_MIN, value) /\ I64Le(value, I16_MAX) THEN ToBeBytes(value, 2)
    ELSE IF I64Le(I32_MIN, value) /\ I64Le(value, I32_MAX) THEN ToBeBytes(value, 4)
    ELSE ToBeBytes(value, 8)

\* try_write_with_decomposer for Expr<S>: the token, then the body
RECURSIVE ExprWrite(_)
ExprWrite(expr) ==
    ExprTokenWriteTo(ExprTokenOf(expr)) \o
    CASE expr.kind \in ExprUnaryTokens -> ExprWrite(expr.inner)
      [] expr.kind \in ExprBinaryTokens -> ExprWrite(expr.lhs) \o ExprWrite(expr.rhs)
      [] expr.kind = "Variable" -> VleWriteTo(expr.id)
      [] expr.kind = "UnsignedIntLiteral" -> ExprUnsignedWrite(expr.value)
      [] expr.kind = "SignedIntLiteral" -> ExprSignedWrite(expr.value)
      [] expr.kind = "BinaryFloat32Literal" -> F32ToBeBytes(expr.value)
      [] expr.kind = "BinaryFloat64Literal" -> F64ToBeBytes(expr.value)
      [] OTHER -> <<>>

\* ExprTreeComposer::compose_default: the expression becomes the tree
ExprTreeCompose(expr, p) == ReadOk(expr, p)

\* try_read_with_composer for the integer literals: byte_length bytes
ExprIntRead(s, p, lim, kind, byte_length) ==
    LET bytes == ReadExact(s, p, lim, byte_length)
    IN  IF ~bytes.ok THEN bytes
        ELSE LET fill == IF kind = "SignedIntLiteral" /\ bytes.value[1] >= 128
                         THEN 255 ELSE 0
             IN  ExprTreeCompose([kind |-> kind, value |-> FromBeBytes(bytes.value, fill)],
                                 bytes.pos)

\* try_read_with_composer for the float literals
ExprFloatRead(s, p, lim, kind) ==
    LET bytes == ReadExact(s, p, lim, IF kind = "BinaryFloat32Literal" THEN 4 ELSE 8)
    IN  IF ~bytes.ok THEN bytes
        ELSE ExprTreeCompose(
                 [kind |-> kind,
                  value |-> IF kind = "BinaryFloat32Literal"
                            THEN F32FromBeBytes(bytes.value)
                            ELSE F64FromBeBytes(bytes.value)],
                 bytes.pos)

\* try_read_with_composer for ExprVariable
ExprVariableRead(s, p, lim) ==
    LET enum_value == VleReadFrom(s, p, lim)
    IN  IF ~enum_value.ok THEN enum_value
        ELSE ExprTreeCompose([kind |-> "Variable", id |-> enum_value.value], enum_value.pos)

\* try_read_with_composer for Expr<S>: the token, then the body it names
RECURSIVE ExprRead(_, _, _)
ExprRead(s, p, lim) ==
    LET token == ExprTokenReadFrom(s, p, lim)
        t == token.value
        q == token.pos
    IN  IF ~token.ok THEN token
        ELSE CASE t \in ExprUnaryTokens ->
                    LET inner_expr == ExprRead(s, q, lim)
                    IN  IF ~inner_expr.ok THEN inner_expr
                        ELSE ExprTreeCompose([kind |-> t, inner |-> inner_expr.value],
                                             inner_expr.pos)
               [] t \in ExprBinaryTokens ->
                    LET lhs == ExprRead(s, q, lim)
                        rhs == ExprRead(s, lhs.pos, lim)
                    IN  IF ~lhs.ok THEN lhs
                        ELSE IF ~rhs.ok THEN rhs
                        ELSE ExprTreeCompose([kind |-> t, lhs |-> lhs.value, rhs |-> rhs.value],
                                             rhs.pos)
               [] t = "Variable" -> ExprVariableRead(s, q, lim)
               [] t \in {"TrueLiteral", "FalseLiteral"} -> ExprTreeCompose([kind |-> t], q)
               [] t = "BinaryFloatLiteral32" -> ExprFloatRead(s, q, lim, "BinaryFloat32Literal")
               [] t = "BinaryFloatLiteral64" -> ExprFloatRead(s, q, lim, "BinaryFloat64Literal")
               [] t = "SignedIntLiteral8" -> ExprIntRead(s, q, lim, "SignedIntLiteral", 1)
               [] t = "SignedIntLiteral16" -> ExprIntRead(s, q, lim, "SignedIntLiteral", 2)
               [] t = "SignedIntLiteral32" -> ExprIntRead(s, q, lim, "SignedIntLiteral", 4)
               [] t = "SignedIntLiteral64" -> ExprIntRead(s, q, lim, "SignedIntLiteral", 8)
               [] t = "UnsignedIntLiteral8" -> ExprIntRead(s, q, lim, "UnsignedIntLiteral", 1)
               [] t = "UnsignedIntLiteral16" -> ExprIntRead(s, q, lim, "UnsignedIntLiteral", 2)
               [] t = "UnsignedIntLiteral32" -> ExprIntRead(s, q, lim, "UnsignedIntLiteral", 4)
               [] t = "UnsignedIntLiteral64" -> ExprIntRead(s, q, lim, "UnsignedIntLiteral", 8)

\* PartialEq for ExprTree (derived)
RECURSIVE ExprEq(_, _)
ExprEq(a, b) ==
    IF a.kind # b.kind THEN FALSE
    ELSE CASE a.kind \in ExprUnaryTokens -> ExprEq(a.inner, b.inner)
           [] a.kind \in ExprBinaryTokens -> ExprEq(a.lhs, b.lhs) /\ ExprEq(a.rhs, b.rhs)
           [] a.kind = "BinaryFloat32Literal" -> FloatEq(a.value, b.value, 255)
           [] a.kind = "BinaryFloat64Literal" -> FloatEq(a.value, b.value, 2047)
           [] OTHER -> a = b

(***************************************************************************)
(* Expression scenario: the caller builds a tree bottom-up, writes it with *)
(* write_expression_tree to an empty buffer and parses the buffer with     *)
(* parse_expression_into_tree.                                             *)
(***************************************************************************)
MaxDepth == 2

AllOnes == <<65535, 65535, 65535, 65535>>

\* the leaves: the two constants, variables, integers around the limits of
\* the widths, and the floats 0.0, -0.0, 1.0, pi, -infinity and a NaN
ExprLeaves ==
    {[kind |-> "TrueLiteral"], [kind |-> "FalseLiteral"]}
    \cup {[kind |-> "Variable", id |-> v] :
            v \in {VleFrom(0), VleFrom(1), VleFrom(128), StorageU64(AllOnes)}}
    \cup {[kind |-> "UnsignedIntLiteral", value |-> v] :
            v \in {FromNat(0), U8_MAX, FromNat(256), U16_MAX, FromNat(65536),
                   U32_MAX, <<0, 1, 0, 0>>, AllOnes}}
    \cup {[kind |-> "SignedIntLiteral", value |-> v] :
            v \in {FromNat(0), FromNat(4), I8_MAX, FromNat(128), AllOnes, I8_MIN,
                   <<65535, 65535, 65535, 65535 - 128>>, I16_MAX, FromNat(32768),
                   I16_MIN, <<65535, 65535, 65535, 32767>>, I32_MAX,
                   <<0, 0, 32768, 0>>, I32_MIN, <<65535, 65535, 32767, 65535>>,
                   <<32767, 65535, 65535, 65535>>, <<32768, 0, 0, 0>>}}
    \cup {[kind |-> "BinaryFloat32Literal", value |-> v] :
            v \in {<<0, 0, 0>>, <<1, 0, 0>>, <<0, 127, 0>>, <<0, 128, \H490FDB>>,
                   <<1, 255, 0>>, <<0, 255, \H400000>>}}
    \cup {[kind |-> "BinaryFloat64Literal", value |-> v] :
            v \in {<<0, 0, 0, 0, 0, 0>>, <<1, 0, 0, 0, 0, 0>>, <<0, 1023, 0, 0, 0, 0>>,
                   <<0, 1024, 9, \H21FB, \H5444, \H2D18>>, <<1, 2047, 0, 0, 0, 0>>,
                   <<0, 2047, 8, 0, 0, 0>>}}

\* the operands a binary operator is given beside the tree built so far
ExprOperands ==
    {[kind |-> "Variable", id |-> VleFrom(1)],
     [kind |-> "SignedIntLiteral", value |-> FromNat(4)]}

RECURSIVE ExprDepth(_)
ExprDepth(expr) ==
    CASE expr.kind \in ExprUnaryTokens -> 1 + ExprDepth(expr.inner)
      [] expr.kind \in ExprBinaryTokens ->
            LET l == ExprDepth(expr.lhs)
                r == ExprDepth(expr.rhs)
            IN  1 + IF l >= r THEN l ELSE r
      [] OTHER -> 1

InitExpr ==
    /\ stream = <<>>
    /\ pos = 0
    /\ pc = "expr"
    /\ tree = None
    /\ parsed = None
    /\ results = <<>>
    /\ pad = 0
    /\ plain = None
    /\ ord = None
    /\ toks = <<>>
    /\ written = <<>>
    /\ input = None
    /\ remaining = 0
    /\ output = None
    /\ limited_reader = 0

\* a literal or a variable: Expr::<ExprTree>::Variable(..).into()
ExprLeaf ==
    /\ pc = "expr"
    /\ ~tree.some
    /\ \E leaf \in ExprLeaves : tree' = Some(leaf)
    /\ UNCHANGED <<stream, pos, pc, parsed, notExpr>>

\* a unary operator over the tree: ExprSquare::from(a)
ExprWrapUnary ==
    /\ pc = "expr"
    /\ tree.some
    /\ ExprDepth(tree.v) < MaxDepth
    /\ \E t \in ExprUnaryTokens : tree' = Some([kind |-> t, inner |-> tree.v])
    /\ UNCHANGED <<stream, pos, pc, parsed, notExpr>>

\* a binary operator over the tree and an operand: ExprAddition::from((a, b))
ExprCombineBinary ==
    /\ pc = "expr"
    /\ tree.some
    /\ ExprDepth(tree.v) < MaxDepth
    /\ \E t \in ExprBinaryTokens, other \in ExprOperands, left \in BOOLEAN :
          tree' = Some(IF left THEN [kind |-> t, lhs |-> tree.v, rhs |-> other]
                       ELSE [kind |-> t, lhs |-> other, rhs |-> tree.v])
    /\ UNCHANGED <<stream, pos, pc, parsed, notExpr>>

\* write_expression_tree(&mut writer, &tree, &DEFAULT_CONFIG)
WriteExpressionTree ==
    /\ pc = "expr"
    /\ tree.some
    /\ stream' = stream \o ExprWrite(tree.v)
    /\ pc' = "written"
    /\ UNCHANGED <<pos, tree, parsed, notExpr>>

\* parse_expression_into_tree(&mut reader, &DEFAULT_CONFIG)
ParseExpressionIntoTree ==
    /\ pc = "written"
    /\ LET r == ExprRead(stream, pos, Len(stream))
       IN  /\ parsed' = Some(r)
           /\ pos' = r.pos
    /\ pc' = "parsed"
    /\ UNCHANGED <<stream, tree, notExpr>>

\* the tree of the quadratic formula (-b + sqrt(b^2 - 4ac)) / (2a) that the
\* example of parse_expression_into_tree builds, a = 0, b = 1, c = 2
QuadraticFormula ==
    LET a == [kind |-> "Variable", id |-> VleFrom(0)]
        b == [kind |-> "Variable", id |-> VleFrom(1)]
        c == [kind |-> "Variable", id |-> VleFrom(2)]
        four == [kind |-> "SignedIntLiteral", value |-> FromNat(4)]
        two == [kind |-> "SignedIntLiteral", value |-> FromNat(2)]
        ac == [kind |-> "Multiplication", lhs |-> a, rhs |-> c]
        four_ac == [kind |-> "Multiplication", lhs |-> four, rhs |-> ac]
        b_square == [kind |-> "Square", inner |-> b]
        b_square_minus_four_ac ==
            [kind |-> "Subtraction", lhs |-> b_square, rhs |-> four_ac]
        sqrt_b_square_minus_four_ac ==
            [kind |-> "SquareRoot", inner |-> b_square_minus_four_ac]
        minus_b == [kind |-> "Negation", inner |-> b]
        numerator == [kind |-> "Addition", lhs |-> minus_b,
                      rhs |-> sqrt_b_square_minus_four_ac]
        denominator == [kind |-> "Multiplication", lhs |-> two, rhs |-> a]
    IN  [kind |-> "Division", lhs |-> numerator, rhs |-> denominator]

\* the bytes the same example gives for that tree
QuadraticBytes ==
    <<\H13, \H10, \H17, \H04, \H01, \H22, \H11, \H20, \H04, \H01,
      \H12, \H08, 0, 0, 0, 0, 0, 0, 0, \H04,
      \H12, \H04, \H00, \H04, \H02,
      \H12, \H08, 0, 0, 0, 0, 0, 0, 0, \H02, \H04, \H00>>

\* the caller builds the tree of the quadratic formula
ExprQuadraticFormula ==
    /\ pc = "expr"
    /\ ~tree.some
    /\ tree' = Some(QuadraticFormula)
    /\ UNCHANGED <<stream, pos, pc, parsed, notExpr>>

\* the example itself: parse_expression_into_tree on its bytes, for the
\* comparison with the tree
ExprQuadraticExample ==
    /\ pc = "expr"
    /\ tree = Some(QuadraticFormula)
    /\ stream' = QuadraticBytes
    /\ \E expr \in {ExprRead(QuadraticBytes, 0, Len(QuadraticBytes))} :
           parsed' = Some(expr) /\ pos' = expr.pos
    /\ pc' = "example"
    /\ UNCHANGED <<tree, notExpr>>

NextExpr ==
    \/ ExprLeaf
    \/ ExprWrapUnary
    \/ ExprCombineBinary
    \/ WriteExpressionTree
    \/ ParseExpressionIntoTree
    \/ ExprQuadraticFormula
    \/ ExprQuadraticExample

SpecExpr == InitExpr /\ [][NextExpr]_vars

\* the nodes of a tree
RECURSIVE ExprNodes(_)
ExprNodes(expr) ==
    {expr} \cup
    CASE expr.kind \in ExprUnaryTokens -> ExprNodes(expr.inner)
      [] expr.kind \in ExprBinaryTokens -> ExprNodes(expr.lhs) \cup ExprNodes(expr.rhs)
      [] OTHER -> {}

\* the tree holds an unsigned literal above u32::MAX
HasUnsigned64(expr) ==
    \E n \in ExprNodes(expr) :
        n.kind = "UnsignedIntLiteral" /\ ~U64Le(n.value, U32_MAX)

\* the tree holds a float literal that is a NaN
HasNaN(expr) ==
    \E n \in ExprNodes(expr) :
        \/ n.kind = "BinaryFloat32Literal" /\ ~FloatEq(n.value, n.value, 255)
        \/ n.kind = "BinaryFloat64Literal" /\ ~FloatEq(n.value, n.value, 2047)

\* C2: parsing the bytes write_expression_tree wrote for a tree succeeds and
\* returns a tree equal to the one written: equal by PartialEq or, for a
\* tree with a NaN literal (which PartialEq calls equal to nothing), the
\* same tree bit for bit.
C2_RoundTrip ==
    pc = "parsed" =>
        /\ parsed.v.ok
        /\ ExprEq(parsed.v.value, tree.v) \/ parsed.v.value = tree.v

\* what holds instead: a tree with an unsigned literal above u32::MAX is not
\* parsed back, a tree with a NaN is parsed back to the same bits (which
\* PartialEq does not call equal), every other tree is parsed back equal,
\* and the parse consumes all the bytes written.
C2_RoundTripBelow64 ==
    pc = "parsed" =>
        IF HasUnsigned64(tree.v)
        THEN ~parsed.v.ok /\ parsed.v.err = "IdentifierNotRecognized"
        ELSE /\ parsed.v.ok
             /\ parsed.v.value = tree.v
             /\ pos = Len(stream)
             /\ ExprEq(parsed.v.value, tree.v) <=> ~HasNaN(tree.v)

(***************************************************************************)
(* The configuration reader (v0/config/read_configuration.rs).             *)
(***************************************************************************)
\* the smaller of the usize x and the number m
UsizeClamp(x, m) == IF IsSmall(x) THEN Min(ToNat(x), m) ELSE m

\* skip_bytes: count reads of one byte each
RECURSIVE SkipBytes(_, _, _, _)
SkipBytes(s, p, lim, count) ==
    IF count = 0 THEN ReadOk(<<>>, p)
    ELSE IF p >= lim THEN ReadErr("UnexpectedEof", p)
    ELSE SkipBytes(s, p + 1, lim, count - 1)

\* TryFrom<usize> for ConfigToken
ConfigTokenTryFromUsize(value) ==
    CASE value = FromNat(\H00) -> Ok("FloatFormat")
      [] value = FromNat(\H01) -> Ok("IntFormat")
      [] OTHER -> Err("IdentifierNotRecognized")

\* TryFrom<VariableLengthEnum> for IntFormat
IntFormatTryFrom(value) ==
    LET as_usize == VleTryIntoUsize(value)
    IN  IF ~as_usize.ok THEN Err("IdentifierTooLarge")
        ELSE CASE as_usize.v = FromNat(\H00) -> Ok("I8")
               [] as_usize.v = FromNat(\H01) -> Ok("I16")
               [] as_usize.v = FromNat(\H02) -> Ok("I32")
               [] as_usize.v = FromNat(\H03) -> Ok("I64")
               [] as_usize.v = FromNat(\H10) -> Ok("U8")
               [] as_usize.v = FromNat(\H11) -> Ok("U16")
               [] as_usize.v = FromNat(\H12) -> Ok("U32")
               [] as_usize.v = FromNat(\H13) -> Ok("U64")
               [] OTHER -> Err("IdentifierNotRecognized")

\* TryFrom<VariableLengthEnum> for FloatFormat
FloatFormatTryFrom(value) ==
    LET as_usize == VleTryIntoUsize(value)
    IN  IF ~as_usize.ok THEN Err("IdentifierTooLarge")
        ELSE CASE as_usize.v = FromNat(\H01) -> Ok("F32")
               [] as_usize.v = FromNat(\H02) -> Ok("F64")
               [] OTHER -> Err("IdentifierNotRecognized")

\* ReadConfigurationOutput::default()
ConfigDefault == [integer_format |-> None, float_format |-> None]

\* mutant: the declared bytes are not skipped
SkipNonEnumConfiguration_LengthOnly(s, p, lim) ==
    Bind(VleReadFrom(s, p, lim), LAMBDA len :
        LET byte_length == VleTryIntoUsize(len.value)
        IN  IF ~len.ok THEN len
            ELSE IF ~byte_length.ok THEN ReadErr(byte_length.err, len.pos)
            ELSE ReadOk(<<>>, len.pos))

\* skip_non_enum_configuration: a varint byte_length, then that many bytes
SkipNonEnumConfiguration(s, p, lim) ==
    Bind(VleReadFrom(s, p, lim), LAMBDA len :
        LET byte_length == VleTryIntoUsize(len.value)
        IN  IF ~len.ok THEN len
            ELSE IF ~byte_length.ok THEN ReadErr(byte_length.err, len.pos)
            ELSE SkipBytes(s, len.pos, lim,
                           UsizeClamp(byte_length.v, lim - len.pos + 1)))

\* config_token_identifier_to_usize: Some(usize), or None after the skip
ConfigTokenIdentifierToUsize(config_token_identifier, s, p, lim) ==
    LET as_usize == VleTryIntoUsize(config_token_identifier)
    IN  IF as_usize.ok THEN ReadOk(Some(as_usize.v), p)
        ELSE Bind(SkipNonEnumConfiguration(s, p, lim), LAMBDA skip :
                 IF skip.ok THEN ReadOk(None, skip.pos) ELSE skip)

\* mutant: the identifier 0x7F is taken for a length-prefixed one
ConfigIsCompact_Below7F(config_token_identifier) ==
    ~U64Le(FromNat(\H7F), config_token_identifier)

\* config_token_identifier <= 0x7F
ConfigIsCompact(config_token_identifier) ==
    U64Le(config_token_identifier, FromNat(\H7F))

\* match_config_token_identifier: Some(token), or None after the skip
MatchConfigTokenIdentifier(config_token_identifier, s, p, lim) ==
    LET token == ConfigTokenTryFromUsize(config_token_identifier)
    IN  IF token.ok THEN ReadOk(Some(token.v), p)
        ELSE Bind(IF ConfigIsCompact(config_token_identifier)
                  THEN VleReadFrom(s, p, lim)
                  ELSE SkipNonEnumConfiguration(s, p, lim),
                  LAMBDA skip : IF skip.ok THEN ReadOk(None, skip.pos) ELSE skip)

\* read_enum_configuration: the option's code, stored in the output
ReadEnumConfiguration(s, p, lim, config_token, out) ==
    Bind(VleReadFrom(s, p, lim), LAMBDA variable_length_enum :
        LET format == IF config_token = "IntFormat"
                      THEN IntFormatTryFrom(variable_length_enum.value)
                      ELSE FloatFormatTryFrom(variable_length_enum.value)
        IN  IF ~variable_length_enum.ok THEN variable_length_enum
            ELSE IF ~format.ok THEN ReadErr(format.err, variable_length_enum.pos)
            ELSE ReadOk(IF config_token = "IntFormat"
                        THEN [out EXCEPT !.integer_format = Some(format.v)]
                        ELSE [out EXCEPT !.float_format = Some(format.v)],
                        variable_length_enum.pos))

\* read_one_config: the output after one (key, value) pair
ReadOneConfig(s, p, lim, out) ==
    Bind(VleReadFrom(s, p, lim), LAMBDA config_token_identifier :
        IF ~config_token_identifier.ok THEN config_token_identifier
        ELSE Bind(ConfigTokenIdentifierToUsize(config_token_identifier.value, s,
                      config_token_identifier.pos, lim), LAMBDA as_usize :
        IF ~as_usize.ok THEN as_usize
        ELSE IF ~as_usize.value.some THEN ReadOk(out, as_usize.pos)
        ELSE Bind(MatchConfigTokenIdentifier(as_usize.value.v, s, as_usize.pos,
                      lim), LAMBDA config_token :
        IF ~config_token.ok THEN config_token
        ELSE IF ~config_token.value.some THEN ReadOk(out, config_token.pos)
        ELSE ReadEnumConfiguration(s, config_token.pos, lim,
                                   config_token.value.v, out))))

(***************************************************************************)
(* Configuration scenario: a slice reader over a configuration section of  *)
(* up to MaxPairs (key, value) pairs and the bytes after it.  input keeps  *)
(* the pairs the section was put together from: the bytes of each, what    *)
(* kind of pair they are ("known": a key of the table with a code of its   *)
(* option; "bad": a key of the table with an unknown code; "compact": an   *)
(* unknown key up to 0x7F with one varint; "blob": an unknown key above    *)
(* 0x7F with a byte length and that many bytes; "short": as blob, with     *)
(* fewer bytes than declared; "huge": as blob, the length above 64 bits)   *)
(* and the option a known pair sets.                                       *)
(***************************************************************************)
MaxPairs == 2

ConfigPair(bytes, class, key, val) ==
    [bytes |-> bytes, class |-> class, key |-> key, val |-> val]

ConfigPairs ==
    {ConfigPair(<<1, \H13>>, "known", "integer_format", "U64"),
     ConfigPair(<<1, 0>>, "known", "integer_format", "I8"),
     ConfigPair(<<0, 1>>, "known", "float_format", "F32"),
     ConfigPair(<<128, 0, 128, 2>>, "known", "float_format", "F64"),
     ConfigPair(<<1, \H7F>>, "bad", "", ""),
     ConfigPair(<<2, 5>>, "compact", "", ""),
     ConfigPair(<<\H7F, \H81, 0>>, "compact", "", ""),
     ConfigPair(<<\H7F>> \o Rep(255, 10) \o <<\H7F>>, "compact", "", ""),
     ConfigPair(<<\H81, 0, 0>>, "blob", "", ""),
     ConfigPair(<<\H87, \H4F, 2, 1, \H13>>, "blob", "", ""),
     ConfigPair(<<\H82>> \o Rep(128, 9) \o <<0, 1, \H13>>, "blob", "", ""),
     ConfigPair(<<255, \H7F, 3, 1, \H13, 0>>, "blob", "", ""),
     ConfigPair(<<\H81, 0, 9, 1, \H13>>, "short", "", ""),
     ConfigPair(<<\H81, 0>> \o Rep(255, 10) \o <<\H7F>>, "huge", "", "")}

RECURSIVE Concat(_)
Concat(seqs) == IF seqs = <<>> THEN <<>> ELSE Head(seqs) \o Concat(Tail(seqs))

InitConfig ==
    /\ \E n \in 0..MaxPairs :
          input \in [pairs : [1..n -> ConfigPairs], tail : {<<>>, <<1, 0>>}]
    /\ stream = <<Len(input.pairs)>>
                \o Concat([i \in 1..Len(input.pairs) |-> input.pairs[i].bytes])
                \o input.tail
    /\ pos = 0
    /\ pc = "config"
    /\ remaining = 0
    /\ output = None
    /\ limited_reader = 0
    /\ results = <<>>
    /\ pad = 0
    /\ plain = None
    /\ ord = None
    /\ toks = <<>>
    /\ written = <<>>
    /\ tree = None
    /\ parsed = None

\* ReadConfigurationOutput::read_from: config_count and the empty output
ConfigReadCount ==
    /\ pc = "config"
    /\ LET count == VleReadFrom(stream, pos, Len(stream))
           config_count == VleTryIntoUsize(count.value)
       IN  /\ pos' = count.pos
           /\ IF count.ok /\ config_count.ok
              THEN /\ remaining' = UsizeClamp(config_count.v, Len(stream) + 1)
                   /\ output' = ConfigDefault
                   /\ pc' = "config_loop"
              ELSE /\ pc' = "config_err"
                   /\ UNCHANGED <<remaining, output>>
    /\ UNCHANGED <<stream, results, input, notConfig>>

\* ReadConfigurationOutput::read_from: one turn of the loop
ConfigReadOne ==
    /\ pc = "config_loop"
    /\ remaining > 0
    /\ \E r \in {ReadOneConfig(stream, pos, Len(stream), output)} :
           /\ results' = Append(results, [start |-> pos, res |-> r])
           /\ pos' = r.pos
           /\ IF r.ok
              THEN /\ output' = r.value
                   /\ remaining' = remaining - 1
                   /\ pc' = pc
              ELSE /\ pc' = "config_err"
                   /\ UNCHANGED <<remaining, output>>
    /\ UNCHANGED <<stream, input, notConfig>>

\* ReadConfigurationOutput::read_from: Ok(output)
ConfigReturn ==
    /\ pc = "config_loop"
    /\ remaining = 0
    /\ pc' = "config_done"
    /\ UNCHANGED <<stream, pos, results, input, remaining, output, notConfig>>

NextConfig == ConfigReadCount \/ ConfigReadOne \/ ConfigReturn

SpecConfig == InitConfig /\ [][NextConfig]_vars

(***************************************************************************)
(* What a configuration pair is, read off the stream: the digits of the    *)
(* varint that starts after position a, without leading zeros.             *)
(***************************************************************************)
DigitsAt(a) == TrimZeros(DigitsOf(SubSeq(stream, a + 1, FirstClear(stream, a))))

\* the number with digits d, for a number below 2^28
RECURSIVE DigitsNat(_)
DigitsNat(d) ==
    IF d = <<>> THEN 0 ELSE DigitsNat(SubSeq(d, 1, Len(d) - 1)) * 128 + d[Len(d)]

\* the output before the i-th pair was read
OutputBefore(i) == IF i = 1 THEN ConfigDefault ELSE results[i - 1].res.value

\* the i-th pair has a key that is fully in the stream and not in the table
\* (the table has the keys 0 and 1)
UnknownKey(i) ==
    /\ FirstClear(stream, results[i].start) > 0
    /\ DigitsAt(results[i].start) \notin {<<>>, <<1>>}

\* the key of the i-th pair is above 0x7F (it has two digits or more), which
\* covers the keys that do not fit 64 bits
KeyAbove7F(i) == Len(DigitsAt(results[i].start)) >= 2

\* C4: a pair with an unknown key above 0x7F, or too large for 64 bits, is
\* skipped as one varint byte_length and exactly that many bytes; a pair
\* with an unknown key up to 0x7F is skipped as exactly one varint.  Either
\* way the output is left as it was, and the read fails only if the stream
\* ends before the bytes to skip do (or the byte_length is beyond 64 bits).
C4_UnknownKeySkip ==
    \A i \in DOMAIN results :
        UnknownKey(i) =>
            LET r == results[i].res
                keyEnd == FirstClear(stream, results[i].start)
                nextEnd == FirstClear(stream, keyEnd)
                len == DigitsAt(keyEnd)
            IN  IF KeyAbove7F(i)
                THEN IF nextEnd > 0 /\ Len(len) <= 2
                                    /\ nextEnd + DigitsNat(len) <= Len(stream)
                     THEN /\ r.ok
                          /\ r.pos = nextEnd + DigitsNat(len)
                          /\ r.value = OutputBefore(i)
                     ELSE ~r.ok
                ELSE IF nextEnd > 0
                     THEN r.ok /\ r.pos = nextEnd /\ r.value = OutputBefore(i)
                     ELSE ~r.ok

\* both rules in one run: the key 0x7F with a varint too large for 64 bits,
\* then a key too large for 64 bits with one declared byte
C4_Witness ==
    /\ pc = "config_done"
    /\ Len(results) = 2
    /\ UnknownKey(1) /\ ~KeyAbove7F(1) /\ DigitsAt(results[1].start) = <<127>>
    /\ results[1].res.pos - results[1].start = 12
    /\ UnknownKey(2) /\ KeyAbove7F(2) /\ Len(DigitsAt(results[2].start)) = 11
    /\ results[2].res.pos - results[2].start = 13
    /\ pos < Len(stream)

\* C5: a section of one known pair and then one unknown pair with a key
\* above 0x7F, a byte length and that many bytes is read to the end: the
\* output holds the option of the known pair and nothing else, and the
\* cursor is right after the bytes of the unknown pair.
C5_KnownThenUnknown ==
    ( /\ pc \in {"config_done", "config_err"}
      /\ Len(input.pairs) = 2
      /\ input.pairs[1].class = "known"
      /\ input.pairs[2].class = "blob" ) =>
        /\ pc = "config_done"
        /\ output = [ConfigDefault EXCEPT ![input.pairs[1].key] = Some(input.pairs[1].val)]
        /\ pos = Len(stream) - Len(input.tail)

C5_Witness ==
    /\ pc = "config_done"
    /\ Len(input.pairs) = 2
    /\ input.pairs[1].class = "known"
    /\ input.pairs[2].class = "blob"
    /\ Len(input.pairs[2].bytes) = 6
    /\ input.tail # <<>>
    /\ output.integer_format = Some("U64")

(***************************************************************************)
(* The metadata section (v0/metadata, v0/parse/metadata.rs).  A reader     *)
(* wrapped in std::io::Take gives at most limit bytes more: on (s, p, lim) *)
(* it is the reader (s, p, TakeLim(p, lim, limit)).                        *)
(***************************************************************************)
\* mutant: the wrapped reader gives all the bytes of the reader inside
TakeLim_Unlimited(p, lim, limit) == lim

TakeLim(p, lim, limit) == Min(lim, p + limit)

\* String::from_utf8: is b[i..] well-formed UTF-8
RECURSIVE Utf8Valid(_, _)
Utf8Valid(b, i) ==
    IF i > Len(b) THEN TRUE
    ELSE LET c == b[i]
             Cont(j, lo, hi) == j <= Len(b) /\ b[j] >= lo /\ b[j] <= hi
         IN  IF c < \H80 THEN Utf8Valid(b, i + 1)
             ELSE IF c >= \HC2 /\ c <= \HDF
             THEN Cont(i + 1, \H80, \HBF) /\ Utf8Valid(b, i + 2)
             ELSE IF c >= \HE0 /\ c <= \HEF
             THEN /\ Cont(i + 1, IF c = \HE0 THEN \HA0 ELSE \H80,
                                 IF c = \HED THEN \H9F ELSE \HBF)
                  /\ Cont(i + 2, \H80, \HBF)
                  /\ Utf8Valid(b, i + 3)
             ELSE IF c >= \HF0 /\ c <= \HF4
             THEN /\ Cont(i + 1, IF c = \HF0 THEN \H90 ELSE \H80,
                                 IF c = \HF4 THEN \H8F ELSE \HBF)
                  /\ Cont(i + 2, \H80, \HBF)
                  /\ Cont(i + 3, \H80, \HBF)
                  /\ Utf8Valid(b, i + 4)
             ELSE FALSE

\* String::read_from: length, take(length).read_to_end, from_utf8
StringReadFrom(s, p, lim) ==
    Bind(VleReadFrom(s, p, lim), LAMBDA len :
        LET length == VleTryIntoUsize(len.value)
            end == TakeLim(len.pos, lim, UsizeClamp(length.v, lim))
            buffer == SubSeq(s, len.pos + 1, end)
        IN  IF ~len.ok THEN len
            ELSE IF ~length.ok THEN ReadErr("LengthTooLarge", len.pos)
            ELSE IF Utf8Valid(buffer, 1) THEN ReadOk(buffer, end)
            ELSE ReadErr("FromUtf8Error", end))

\* NameMetadataRecordObj::read_from
NameReadFrom(s, p, lim) ==
    Bind(VleReadFrom(s, p, lim), LAMBDA full :
        LET full_length == VleTryIntoUsize(full.value)
            reserved_part == TakeLim(full.pos, lim, UsizeClamp(full_length.v, lim))
        IN  IF ~full.ok THEN full
            ELSE IF ~full_length.ok THEN ReadErr(full_length.err, full.pos)
            ELSE Bind(StringReadFrom(s, full.pos, reserved_part), LAMBDA name :
                     IF ~name.ok THEN name
                     ELSE ReadOk([kind |-> "Name", name |-> name.value],
                                 reserved_part)))

\* VariableNameMetadataRecordObj::read_from
VariableNameReadFrom(s, p, lim) ==
    Bind(VleReadFrom(s, p, lim), LAMBDA full :
        LET full_length == VleTryIntoUsize(full.value)
            reserved_part == TakeLim(full.pos, lim, UsizeClamp(full_length.v, lim))
        IN  IF ~full.ok THEN full
            ELSE IF ~full_length.ok THEN ReadErr(full_length.err, full.pos)
            ELSE Bind(VleReadFrom(s, full.pos, reserved_part),
                      LAMBDA variable_identifier :
                 IF ~variable_identifier.ok THEN variable_identifier
                 ELSE Bind(StringReadFrom(s, variable_identifier.pos,
                                          reserved_part), LAMBDA name :
                      IF ~name.ok THEN name
                      ELSE ReadOk([kind |-> "VariableName", name |-> name.value,
                                   variable_identifier |->
                                       variable_identifier.value],
                                  reserved_part))))

\* the read_from of the reserved and the unknown records: length, then
\* take(length).read_to_end; record is the record without its data
DataRecordReadFrom(s, p, lim, record) ==
    Bind(VleReadFrom(s, p, lim), LAMBDA len :
        LET length == VleTryIntoUsize(len.value)
            end == TakeLim(len.pos, lim, UsizeClamp(length.v, lim))
        IN  IF ~len.ok THEN len
            ELSE IF ~length.ok THEN ReadErr(length.err, len.pos)
            ELSE ReadOk([record EXCEPT !.data = SubSeq(s, len.pos + 1, end)],
                        end))

\* mutant: the upper end of every band belongs to the band below
MetadataTokenTryFromUsize_Inclusive(value) ==
    IF value = FromNat(\H01) THEN Ok([kind |-> "Name"])
    ELSE IF value = FromNat(\H02) THEN Ok([kind |-> "VariableName"])
    ELSE IF U64Le(value, FromNat(\H40000))
    THEN Ok([kind |-> "ReservedOfficial", id |-> ToNat(value)])
    ELSE IF U64Le(value, FromNat(\H100000))
    THEN Ok([kind |-> "ReservedThirdParty", id |-> ToNat(value)])
    ELSE IF U64Le(value, FromNat(\H200000))
    THEN Ok([kind |-> "ReservedCustom", id |-> ToNat(value)])
    ELSE Err([error |-> "IdentifierNotRecognized", identifier |-> StorageU64(value)])

\* TryFrom<usize> for MetadataToken
MetadataTokenTryFromUsize(value) ==
    IF value = FromNat(\H01) THEN Ok([kind |-> "Name"])
    ELSE IF value = FromNat(\H02) THEN Ok([kind |-> "VariableName"])
    ELSE IF ~U64Le(FromNat(\H40000), value)
    THEN Ok([kind |-> "ReservedOfficial", id |-> ToNat(value)])
    ELSE IF ~U64Le(FromNat(\H100000), value)
    THEN Ok([kind |-> "ReservedThirdParty", id |-> ToNat(value)])
    ELSE IF ~U64Le(FromNat(\H200000), value)
    THEN Ok([kind |-> "ReservedCustom", id |-> ToNat(value)])
    ELSE Err([error |-> "IdentifierNotRecognized", identifier |-> StorageU64(value)])

\* TryFrom<VariableLengthEnum> for MetadataToken
MetadataTokenTryFromVle(value) ==
    LET inner == VleTryIntoUsize(value)
    IN  IF inner.ok THEN MetadataTokenTryFromUsize(inner.v)
        ELSE Err([error |-> "IdentifierTooLarge", identifier |-> value])

\* MetadataRecord::read_from
MetadataRecordReadFrom(s, p, lim) ==
    Bind(VleReadFrom(s, p, lim), LAMBDA identifier :
        IF ~identifier.ok THEN identifier
        ELSE Bind(MetadataTokenTryFromVle(identifier.value), LAMBDA token :
            IF ~token.ok
            THEN IF token.err.error = "IdentifierNotRecognized"
                 THEN DataRecordReadFrom(s, identifier.pos, lim,
                          [kind |-> "Unknown",
                           identifier |-> token.err.identifier, data |-> <<>>])
                 ELSE ReadErr(token.err.error, identifier.pos)
            ELSE IF token.v.kind = "Name"
            THEN NameReadFrom(s, identifier.pos, lim)
            ELSE IF token.v.kind = "VariableName"
            THEN VariableNameReadFrom(s, identifier.pos, lim)
            ELSE DataRecordReadFrom(s, identifier.pos, lim,
                     [kind |-> token.v.kind, id |-> token.v.id, data |-> <<>>])))

\* MetadataHeader::read_from
MetadataHeaderReadFrom(s, p, lim) ==
    Bind(VleReadFrom(s, p, lim), LAMBDA count :
        LET record_count == VleTryIntoUsize(count.value)
        IN  IF ~count.ok \/ ~record_count.ok
            THEN ReadErr("RecordCountError", count.pos)
            ELSE IF record_count.v = U64Zero
            THEN ReadOk([record_count |-> U64Zero, byte_size |-> U64Zero],
                        count.pos)
            ELSE Bind(VleReadFrom(s, count.pos, lim), LAMBDA size :
                LET byte_size == VleTryIntoUsize(size.value)
                IN  IF ~size.ok \/ ~byte_size.ok
                    THEN ReadErr("ByteLengthError", size.pos)
                    ELSE ReadOk([record_count |-> record_count.v,
                                 byte_size |-> byte_size.v], size.pos)))

\* Drop for MetadataIterator that reads nothing
MetadataIteratorDrop_Forget(p, lim) == p

\* Drop for MetadataIterator: limited_reader.read_to_end, on the limited
\* reader (s, p, lim); gives the cursor it leaves
MetadataIteratorDrop(p, lim) == lim

\* parse_metadata_as_vec: the for loop over the iterator, which is dropped
\* when the loop is left; gives the function's result and the cursor
RECURSIVE ParseMetadataLoop(_, _, _, _, _)
ParseMetadataLoop(s, p, limit, records_remaining, records) ==
    IF records_remaining = 0
    THEN ReadOk(records, MetadataIteratorDrop(p, TakeLim(p, Len(s), limit)))
    ELSE Bind(MetadataRecordReadFrom(s, p, TakeLim(p, Len(s), limit)),
              LAMBDA record :
             IF ~record.ok
             THEN ReadErr(record.err,
                          MetadataIteratorDrop(record.pos, TakeLim(p, Len(s), limit)))
             ELSE ParseMetadataLoop(s, record.pos, limit - (record.pos - p),
                                    records_remaining - 1,
                                    Append(records, record.value)))

(***************************************************************************)
(* Metadata scenario.  The stream is a header, up to MaxRecords records,   *)
(* padding and the bytes after the section; the header's count and size    *)
(* need not match what follows.  The caller either takes the iterator of   *)
(* parse_metadata, calls next as often as it likes and drops it, or calls  *)
(* parse_metadata_as_vec.                                                  *)
(***************************************************************************)
MaxRecords == 2

MetaRecords ==
    { <<1, 2, 1, 70>>,                        \* Name "F"
      <<1, 5, 2, \HC3, \HA9, 0, 0>>,          \* Name, two spare bytes
      <<1, 4, 1, 255, 9, 9>>,                 \* Name that is not UTF-8
      <<2, 3, 1, 1, 120>>,                    \* VariableName 1 "x"
      <<3, 2, 87, 111>>,                      \* reserved, official
      <<\H90, \H80, 0, 1, 7>>,                \* reserved, third party
      <<\HC0, \H80, 0, 0>>,                   \* reserved, custom, no data
      <<\H81, \H80, \H80, 0, 2, 6, 6>>,       \* unknown
      <<\H82>> \o Rep(128, 8) \o <<0>>,       \* identifier beyond 64 bits
      <<3, 9, 1>> }                           \* declares more than it has

\* the byte size a header declares for a body of n bytes
MetaSize(size, n) ==
    CASE size = "short" -> <<IF n < 2 THEN 0 ELSE n - 2>>
      [] size = "exact" -> <<n>>
      [] size = "long" -> <<n + 2>>
      [] size = "huge" -> <<\H81, \H80, \H80, \H80, \H80, 0>>
      [] size = "overflow" -> <<\H82>> \o Rep(128, 8) \o <<0>>

InitMeta ==
    /\ \E n \in 0..MaxRecords :
          input \in [records : [1..n -> MetaRecords],
                     count : 0..MaxRecords,
                     pad : {0, MaxPad},
                     size : {"short", "exact", "long", "huge", "overflow"},
                     tail : {<<>>, <<5, 5, 5>>}]
    /\ LET body == Concat(input.records) \o Rep(0, input.pad)
       IN  stream = <<input.count>>
                    \o (IF input.count = 0 THEN <<>>
                        ELSE MetaSize(input.size, Len(body)))
                    \o body \o input.tail
    /\ pos = 0
    /\ pc = "meta"
    /\ results = <<>>
    /\ remaining = 0
    /\ output = None
    /\ limited_reader = 0
    /\ pad = 0
    /\ plain = None
    /\ ord = "Equal"
    /\ toks = <<>>
    /\ written = <<>>
    /\ tree = None
    /\ parsed = None

\* parse_metadata: MetadataIterator::new
ParseMetadata ==
    /\ pc = "meta"
    /\ \E header \in {MetadataHeaderReadFrom(stream, pos, Len(stream))} :
           /\ pos' = header.pos
           /\ IF header.ok
              THEN /\ limited_reader' =
                          UsizeClamp(header.value.byte_size, Len(stream) + 1)
                   /\ remaining' =
                          UsizeClamp(header.value.record_count, Len(stream) + 1)
                   /\ pc' = "iter"
              ELSE /\ pc' = "meta_err"
                   /\ UNCHANGED <<limited_reader, remaining>>
    /\ UNCHANGED <<stream, results, input, output, notMeta>>

\* MetadataIterator::next
IteratorNext ==
    /\ pc = "iter"
    /\ IF remaining = 0
       THEN /\ pc' = "iter_end"
            /\ UNCHANGED <<pos, results, remaining, limited_reader>>
       ELSE \E record \in {MetadataRecordReadFrom(stream, pos,
                                TakeLim(pos, Len(stream), limited_reader))} :
                /\ remaining' = remaining - 1
                /\ results' = Append(results, [start |-> pos, res |-> record])
                /\ pos' = record.pos
                /\ limited_reader' = limited_reader - (record.pos - pos)
                /\ pc' = pc
    /\ UNCHANGED <<stream, input, output, notMeta>>

\* Drop for MetadataIterator, whenever the caller lets go of the iterator
IteratorDrop ==
    /\ pc \in {"iter", "iter_end"}
    /\ LET lim == TakeLim(pos, Len(stream), limited_reader)
           end == MetadataIteratorDrop(pos, lim)
       IN  /\ pos' = end
           /\ limited_reader' = limited_reader - (end - pos)
    /\ pc' = "dropped"
    /\ UNCHANGED <<stream, results, input, remaining, output, notMeta>>

\* parse_metadata_as_vec
ParseMetadataAsVec ==
    /\ pc = "meta"
    /\ \E header \in {MetadataHeaderReadFrom(stream, pos, Len(stream))} :
           IF header.ok
           THEN \E vec \in {ParseMetadataLoop(stream, header.pos,
                      UsizeClamp(header.value.byte_size, Len(stream) + 1),
                      UsizeClamp(header.value.record_count, Len(stream) + 1),
                      <<>>)} :
                    pos' = vec.pos /\ output' = vec /\ pc' = "dropped"
           ELSE pos' = header.pos /\ output' = header /\ pc' = "meta_err"
    /\ UNCHANGED <<stream, results, input, remaining, limited_reader, notMeta>>

NextMeta == ParseMetadata \/ IteratorNext \/ IteratorDrop \/ ParseMetadataAsVec

SpecMeta == InitMeta /\ [][NextMeta]_vars

(***************************************************************************)
(* The section as the header in the stream declares it.                    *)
(***************************************************************************)
\* the header declares no records, and then has no total_byte_size
NoRecords == DigitsAt(0) = <<>>

\* the digits of total_byte_size
TotalDigits == IF NoRecords THEN <<>> ELSE DigitsAt(FirstClear(stream, 0))

\* where the header ends
HeaderEnd ==
    IF NoRecords THEN FirstClear(stream, 0)
    ELSE FirstClear(stream, FirstClear(stream, 0))

\* the stream holds total_byte_size bytes after the header
HoldsSection ==
    Len(TotalDigits) <= 2 /\ HeaderEnd + DigitsNat(TotalDigits) <= Len(stream)

\* C1: if the stream holds at least total_byte_size bytes after the header,
\* then once the iterator of parse_metadata is dropped - after all records,
\* after some of them, or after a record that failed to read - the cursor
\* is at the end of the header plus total_byte_size.
C1_CursorAtSectionEnd ==
    (pc = "dropped" /\ HoldsSection) => pos = HeaderEnd + DigitsNat(TotalDigits)

\* dropped right after a record failed in its middle, one record to go
C1_Witness ==
    /\ pc = "dropped" /\ HoldsSection
    /\ Len(results) = 1 /\ ~results[1].res.ok
    /\ results[1].res.err = "FromUtf8Error"
    /\ remaining = 1
    /\ results[1].res.pos < pos
    /\ pos < Len(stream)

\* dropped by a caller that stopped after the first of two good records
C1_WitnessStopped ==
    /\ pc = "dropped" /\ HoldsSection
    /\ Len(results) = 1 /\ results[1].res.ok
    /\ remaining = 1
    /\ results[1].res.pos < pos - input.pad

\* dropped after all records were yielded, with padding left to drain
C1_WitnessAll ==
    /\ pc = "dropped" /\ HoldsSection
    /\ Len(results) = 2 /\ results[1].res.ok /\ results[2].res.ok
    /\ remaining = 0
    /\ results[2].res.pos < pos

\* parse_metadata_as_vec returned an error of the second record
C1_WitnessAsVec ==
    /\ pc = "dropped" /\ HoldsSection
    /\ results = <<>> /\ output # None /\ ~output.ok
    /\ input.count = 2
    /\ pos = HeaderEnd + DigitsNat(TotalDigits)
    /\ pos < Len(stream)

(***************************************************************************)
(* The metadata writers (v0/write/metadata.rs, v0/metadata).  A writer is  *)
(* modelled by the bytes it writes.  min_byte_length is, like the varint   *)
(* writer, in no file of the repository: it is taken to be the number of   *)
(* bytes the varint writer emits.                                          *)
(***************************************************************************)
\* VariableLengthEnum::min_byte_length
VleMinByteLength(value) == Len(VleWriteTo(value))

\* WriteTo for String: the length, then the bytes
StringWriteTo(string) == VleWriteTo(VleFrom(Len(string))) \o string

\* mutant: the byte length of a record with a name is the length of the name
MetadataRecordByteLength_NameOnly(record) ==
    IF record.kind \in {"Name", "VariableName"} THEN Len(record.name)
    ELSE Len(record.data)

\* MetadataRecord::byte_length, by the kind of the record
MetadataRecordByteLength(record) ==
    IF record.kind = "Name"
    THEN Len(record.name) + VleMinByteLength(VleFrom(Len(record.name)))
    ELSE IF record.kind = "VariableName"
    THEN Len(record.name) + VleMinByteLength(VleFrom(Len(record.name)))
         + VleMinByteLength(record.variable_identifier)
    ELSE Len(record.data)

\* the identifier write_metadata_record! writes: the record's token as a
\* usize, or the identifier an unknown record carries
MetadataRecordIdentifier(record) ==
    IF record.kind = "Name" THEN VleFrom(\H01)
    ELSE IF record.kind = "VariableName" THEN VleFrom(\H02)
    ELSE IF record.kind = "Unknown" THEN record.identifier
    ELSE VleFrom(record.id)

\* the write_to of the record objects: the length, then the payload
MetadataRecordObjWriteTo(record) ==
    IF record.kind = "Name"
    THEN VleWriteTo(VleFrom(MetadataRecordByteLength(record)))
         \o StringWriteTo(record.name)
    ELSE IF record.kind = "VariableName"
    THEN VleWriteTo(VleFrom(MetadataRecordByteLength(record)))
         \o VleWriteTo(record.variable_identifier)
         \o StringWriteTo(record.name)
    ELSE VleWriteTo(VleFrom(Len(record.data))) \o record.data

\* MetadataRecord::write_to (write_metadata_record!)
MetadataRecordWriteTo(record) ==
    VleWriteTo(MetadataRecordIdentifier(record)) \o MetadataRecordObjWriteTo(record)

\* mutant: the byte size is written whatever the record count is
MetadataHeaderWriteTo_Always(record_count, byte_size) ==
    VleWriteTo(VleFrom(record_count)) \o VleWriteTo(VleFrom(byte_size))

\* MetadataHeader::new(record_count, byte_size).write_to
MetadataHeaderWriteTo(record_count, byte_size) ==
    VleWriteTo(VleFrom(record_count))
    \o (IF record_count # 0 THEN VleWriteTo(VleFrom(byte_size)) ELSE <<>>)

\* sum of the byte_length of the records
RECURSIVE SumByteLength(_)
SumByteLength(records) ==
    IF records = <<>> THEN 0
    ELSE MetadataRecordByteLength(Head(records)) + SumByteLength(Tail(records))

\* write_metadata: the header, then each record
WriteMetadata(records, record_count, byte_size) ==
    MetadataHeaderWriteTo(record_count, byte_size)
    \o Concat([i \in 1..Len(records) |-> MetadataRecordWriteTo(records[i])])

\* write_metadata_from_vec
WriteMetadataFromVec(records) ==
    WriteMetadata(records, Len(records), SumByteLength(records))

(***************************************************************************)
(* Metadata writer scenario.  The caller either writes up to MaxRecords    *)
(* records with write_metadata_from_vec, or writes one header; bytes may   *)
(* follow what was written.  The header is then read back, and after       *)
(* write_metadata_from_vec the whole section with parse_metadata_as_vec.   *)
(***************************************************************************)
MetaRecordValues ==
    { [kind |-> "Name", name |-> <<70>>],
      [kind |-> "Name", name |-> <<>>],
      [kind |-> "VariableName", name |-> <<120>>, variable_identifier |-> VleFrom(1)],
      [kind |-> "VariableName", name |-> <<120, 49>>,
       variable_identifier |-> VleFrom(300)],
      [kind |-> "ReservedOfficial", id |-> 3, data |-> <<87, 111>>],
      [kind |-> "ReservedOfficial", id |-> 0, data |-> Rep(9, 130)],
      [kind |-> "ReservedThirdParty", id |-> \H40000, data |-> <<7>>],
      [kind |-> "ReservedCustom", id |-> \H100100, data |-> <<>>],
      [kind |-> "Unknown", identifier |-> VleFrom(\H200000), data |-> <<6, 6>>] }

InitMetaWrite ==
    /\ \E n \in 0..MaxRecords :
          input \in [records : [1..n -> MetaRecordValues],
                     record_count : {0, 1, 2, 200},
                     byte_size : {0, 5, 300},
                     tail : {<<>>, <<0, 7>>}]
    /\ stream = <<>>
    /\ written = <<>>
    /\ pos = 0
    /\ pc = "meta_write"
    /\ results = <<>>
    /\ remaining = 0
    /\ output = None
    /\ limited_reader = 0
    /\ pad = 0
    /\ plain = None
    /\ ord = "Equal"
    /\ toks = <<>>
    /\ tree = None
    /\ parsed = None

\* write_metadata_from_vec(writer, configuration, records)
WriteFromVec ==
    /\ pc = "meta_write"
    /\ written' = <<WriteMetadataFromVec(input.records)>>
    /\ stream' = written'[1] \o input.tail
    /\ pc' = "vec_written"
    /\ UNCHANGED <<pos, results, input, remaining, output, notMetaWrite>>

\* MetadataHeader::new(record_count, byte_size).write_to(writer)
HeaderWrite ==
    /\ pc = "meta_write"
    /\ written' = <<MetadataHeaderWriteTo(input.record_count, input.byte_size)>>
    /\ stream' = written'[1] \o input.tail
    /\ pc' = "header_written"
    /\ UNCHANGED <<pos, results, input, remaining, output, notMetaWrite>>

\* MetadataHeader::read_from on the bytes of HeaderWrite
HeaderRead ==
    /\ pc = "header_written"
    /\ \E header \in {MetadataHeaderReadFrom(stream, pos, Len(stream))} :
           /\ output' = header
           /\ pos' = header.pos
    /\ pc' = "header_read"
    /\ UNCHANGED <<stream, written, results, input, remaining, notMetaWrite>>

\* parse_metadata_as_vec on the bytes of WriteFromVec
ReadBackAsVec ==
    /\ pc = "vec_written"
    /\ \E header \in {MetadataHeaderReadFrom(stream, pos, Len(stream))} :
           IF header.ok
           THEN \E vec \in {ParseMetadataLoop(stream, header.pos,
                      UsizeClamp(header.value.byte_size, Len(stream) + 1),
                      UsizeClamp(header.value.record_count, Len(stream) + 1),
                      <<>>)} :
                    pos' = vec.pos /\ output' = vec
           ELSE pos' = header.pos /\ output' = header
    /\ pc' = "vec_read"
    /\ UNCHANGED <<stream, written, results, input, remaining, notMetaWrite>>

\* the name of the examples of NameMetadataRecordObj: "Hello World"
HelloWorld == <<72, 101, 108, 108, 111, 32, 87, 111, 114, 108, 100>>

\* NameMetadataRecordObj::new(name).write_to(writer): the record written is
\* kept in results
NameWriteTo ==
    /\ pc = "meta_write"
    /\ input.records = <<>>
    /\ \E name \in {HelloWorld, <<>>, <<70>>, <<195, 169>>, Rep(97, MaxFill)} :
           /\ results' = <<[kind |-> "Name", name |-> name]>>
           /\ written' = <<MetadataRecordObjWriteTo(results'[1])>>
    /\ stream' = written'[1] \o input.tail
    /\ pc' = "name_written"
    /\ UNCHANGED <<pos, input, remaining, output, notMetaWrite>>

\* NameMetadataRecordObj::read_from on the bytes of NameWriteTo
NameReadBack ==
    /\ pc = "name_written"
    /\ \E record \in {NameReadFrom(stream, pos, Len(stream))} :
           /\ output' = record
           /\ pos' = record.pos
    /\ pc' = "name_read"
    /\ UNCHANGED <<stream, written, results, input, remaining, notMetaWrite>>

\* write_to of the record that NameReadBack decoded
NameWriteAgain ==
    /\ pc = "name_read"
    /\ output.ok
    /\ written' = written \o <<MetadataRecordObjWriteTo(output.value)>>
    /\ pc' = "name_rewritten"
    /\ UNCHANGED <<stream, pos, results, input, remaining, output, notMetaWrite>>

NextMetaWrite ==
    \/ WriteFromVec \/ HeaderWrite \/ HeaderRead \/ ReadBackAsVec
    \/ NameWriteTo \/ NameReadBack \/ NameWriteAgain

SpecMetaWrite == InitMetaWrite /\ [][NextMetaWrite]_vars

\* the bytes written after the header
RecordBytesWritten == Len(written[1]) - HeaderEnd

\* C12: the total_byte_size that write_metadata_from_vec writes into the
\* header is the number of bytes of the records that follow the header.
C12_TotalCoversRecords ==
    pc = "vec_written" => DigitsNat(TotalDigits) = RecordBytesWritten

\* what the code does: the total leaves out, for every record, the bytes of
\* its identifier and of its own length, so that the section read back with
\* parse_metadata_as_vec is cut short
C12_TotalIsPayloadOnly ==
    /\ pc = "vec_written" =>
          /\ DigitsNat(TotalDigits) = SumByteLength(input.records)
          /\ \A i \in DOMAIN input.records :
                Len(MetadataRecordWriteTo(input.records[i]))
                    >= MetadataRecordByteLength(input.records[i]) + 2
    /\ (pc = "vec_read" /\ input.records # <<>>) =>
          /\ pos = HeaderEnd + SumByteLength(input.records)
          /\ pos < Len(written[1])
          /\ output.ok => output.value # input.records

\* C13: a header has the total_byte_size varint if and only if its
\* record_count is not 0.  With record_count 0 the writer writes one varint
\* and the reader reads one varint and gives the byte size 0; otherwise the
\* writer writes two varints and the reader reads both.
C13_ByteSizeIffRecords ==
    /\ pc \in {"header_written", "header_read"} =>
          Cardinality({j \in DOMAIN written[1] : written[1][j] < 128})
              = IF input.record_count = 0 THEN 1 ELSE 2
    /\ pc = "header_read" =>
          /\ output.ok
          /\ pos = Len(written[1])
          /\ output.value.record_count = FromNat(input.record_count)
          /\ output.value.byte_size =
                 IF input.record_count = 0 THEN U64Zero
                 ELSE FromNat(input.byte_size)

\* a header of no records and a stated byte size, with bytes behind it
C13_Witness ==
    /\ pc = "header_read"
    /\ input.record_count = 0 /\ input.byte_size = 5 /\ input.tail # <<>>
    /\ written[1] = <<0>> /\ pos = 1 /\ output.ok

\* a header of 200 records and 300 bytes
C13_WitnessRecords ==
    /\ pc = "header_read"
    /\ input.record_count = 200 /\ input.byte_size = 300
    /\ Len(written[1]) = 4 /\ pos = 4 /\ output.ok

(***************************************************************************)
(* Metadata key scenario: the metadata scenario on a section of one record *)
(* whose key identifier is at an end of a band, and whose length and data  *)
(* may be cut or too large.                                                *)
(***************************************************************************)
InitMetaKey ==
    /\ \E key \in { <<0>>, <<1>>, <<2>>, <<3>>,
                    <<\H8F, \HFF, \H7F>>, <<\H90, \H80, 0>>,
                    <<\HBF, \HFF, \H7F>>, <<\HC0, \H80, 0>>,
                    <<\HFF, \HFF, \H7F>>, <<\H81, \H80, \H80, 0>>,
                    <<\H81, \H80, \H80, \H80, \H80, 0>>,
                    <<\H81>> \o Rep(255, 8) \o <<\H7F>>,
                    <<\H82>> \o Rep(128, 8) \o <<0>> },
          rest \in { <<0>>, <<2, 6, 6>>, <<3, 1, 1, 120>>, <<2, 6>>, <<>>, <<\H81>>,
                     <<\H82>> \o Rep(128, 8) \o <<0>> },
          lead \in {0, MaxPad},
          tail \in {<<>>, <<5, 5, 5>>} :
          /\ input = [key |-> key, rest |-> rest, pad |-> lead, tail |-> tail]
          /\ stream = <<1, lead + Len(key) + Len(rest)>>
                      \o Rep(128, lead) \o key \o rest \o tail
    /\ pos = 0
    /\ pc = "meta"
    /\ results = <<>>
    /\ remaining = 0
    /\ output = None
    /\ limited_reader = 0
    /\ pad = 0
    /\ plain = None
    /\ ord = "Equal"
    /\ toks = <<>>
    /\ written = <<>>
    /\ tree = None
    /\ parsed = None

SpecMetaKey == InitMetaKey /\ [][NextMeta]_vars

\* the key identifier of the record, as the digits in the stream
KeyDigits == TrimZeros(DigitsOf(input.key))

\* the band of a key that fits 64 bits and is not a known key, by its number
KeyBand ==
    IF Len(KeyDigits) > 4 THEN "Unknown"
    ELSE IF DigitsNat(KeyDigits) < \H40000 THEN "ReservedOfficial"
    ELSE IF DigitsNat(KeyDigits) < \H100000 THEN "ReservedThirdParty"
    ELSE IF DigitsNat(KeyDigits) < \H200000 THEN "ReservedCustom"
    ELSE "Unknown"

\* the key fits 64 bits and is neither Name (1) nor VariableName (2)
KeyInRangeNotKnown ==
    NumBits(DigitsOf(input.key)) <= 64 /\ KeyDigits \notin {<<1>>, <<2>>}

\* the record's length is a whole varint in the section that fits 64 bits
LengthReadable ==
    /\ \E j \in DOMAIN input.rest : input.rest[j] < 128
    /\ NumBits(DigitsOf(SubSeq(input.rest, 1, FirstClear(input.rest, 0)))) <= 64

\* C14: a metadata key identifier that fits 64 bits and is not one of the
\* two known keys never fails the read by itself: the record is read as a
\* reserved record of the band its number lies in (official below 0x40000,
\* third party below 0x100000, custom below 0x200000) or as an unknown
\* record, with the identifier kept, whenever its length can be read; the
\* only errors are those of reading the length.
C14_KeyClassifiedByRange ==
    (KeyInRangeNotKnown /\ results # <<>>) =>
        LET r == results[1].res
        IN  IF LengthReadable
            THEN /\ r.ok
                 /\ r.value.kind = KeyBand
                 /\ IF KeyBand = "Unknown"
                    THEN r.value.identifier = StorageU64(ValueWords(DigitsOf(input.key)))
                    ELSE r.value.id = DigitsNat(KeyDigits)
            ELSE ~r.ok /\ r.err \in {"UnexpectedEof", "TooBig"}

\* the first identifier of the third-party band, read with its data
C14_Witness ==
    /\ results # <<>> /\ results[1].res.ok
    /\ input.key = <<\H90, \H80, 0>> /\ input.pad = MaxPad
    /\ results[1].res.value.kind = "ReservedThirdParty"
    /\ results[1].res.value.id = \H40000
    /\ results[1].res.value.data = <<6, 6>>

\* the largest 64-bit identifier, read as an unknown record
C14_WitnessUnknown ==
    /\ results # <<>> /\ results[1].res.ok
    /\ Len(input.key) = 10
    /\ results[1].res.value.kind = "Unknown"
    /\ results[1].res.value.data = <<1, 1, 120>>

(***************************************************************************)
(* Reading a SingleFormula body (v0/file/read_from.rs): the configuration  *)
(* section, the metadata section and the expression, each reader being     *)
(* handed a configuration.                                                 *)
(***************************************************************************)
\* OverridableConfig::from_config_full_override
FromConfigFullOverride(config) ==
    [integer_format |-> Some(config.integer_format),
     float_format |-> Some(config.float_format)]

\* mutant: the file's options are not taken over
OverrideWith_Keep(self, other) == self

\* OverridableConfig::override_with
OverrideWith(self, other) ==
    [integer_format |-> IF other.integer_format.some
                        THEN other.integer_format ELSE self.integer_format,
     float_format |-> IF other.float_format.some
                      THEN other.float_format ELSE self.float_format]

\* Config for OverridableConfig: unwrap_or_default
ConfigOf(self) ==
    [integer_format |-> IF self.integer_format.some
                        THEN self.integer_format.v ELSE "I64",
     float_format |-> IF self.float_format.some
                      THEN self.float_format.v ELSE "F64"]

\* ReadConfigurationOutput::read_from: the while loop
RECURSIVE ReadConfigurationLoop(_, _, _, _, _)
ReadConfigurationLoop(s, p, lim, config_remaining, out) ==
    IF config_remaining = 0 THEN ReadOk(out, p)
    ELSE Bind(ReadOneConfig(s, p, lim, out), LAMBDA one :
             IF ~one.ok THEN one
             ELSE ReadConfigurationLoop(s, one.pos, lim, config_remaining - 1,
                                        one.value))

\* parse_configuration
ParseConfiguration(s, p, lim) ==
    Bind(VleReadFrom(s, p, lim), LAMBDA count :
        LET config_count == VleTryIntoUsize(count.value)
        IN  IF ~count.ok THEN count
            ELSE IF ~config_count.ok THEN ReadErr(config_count.err, count.pos)
            ELSE ReadConfigurationLoop(s, count.pos, lim,
                     UsizeClamp(config_count.v, Len(s) + 1), ConfigDefault))

(***************************************************************************)
(* File scenario.  The caller's configuration is any pair of formats; the  *)
(* stream is a configuration section of up to MaxPairs pairs, a metadata   *)
(* section and an expression.  results logs, for the metadata and for the  *)
(* expression, the configuration its reader was given and what it gave.    *)
(***************************************************************************)
InitFile ==
    /\ \E n \in 0..MaxPairs :
          input \in [configuration : [integer_format : {"I64", "I8", "U64"},
                                      float_format : {"F64", "F32"}],
                     pairs : [1..n -> {pair \in ConfigPairs :
                                 pair.class \in {"known", "compact", "bad"}}],
                     metadata : {<<0>>, <<1, 4, 1, 2, 1, 70>>, <<1, 4, 1, 2>>},
                     expression : {<<4, 0>>, <<\H10, 4, 1, \H20, 4>>,
                                   <<\H10, 4>>}]
    /\ stream = <<Len(input.pairs)>>
                \o Concat([i \in 1..Len(input.pairs) |-> input.pairs[i].bytes])
                \o input.metadata \o input.expression
    /\ pos = 0
    /\ pc = "file"
    /\ results = <<>>
    /\ remaining = 0
    /\ output = None
    /\ limited_reader = 0
    /\ pad = 0
    /\ plain = None
    /\ ord = None
    /\ toks = <<>>
    /\ written = <<>>
    /\ tree = None
    /\ parsed = None

\* SingleFormulaFile::read_from, lines 29 to 31: file_config and config
FileReadConfiguration ==
    /\ pc = "file"
    /\ \E file_config \in {ParseConfiguration(stream, pos, Len(stream))} :
           /\ pos' = file_config.pos
           /\ IF file_config.ok
              THEN /\ output' =
                        [configuration |-> file_config.value,
                         config |-> OverrideWith(
                                        FromConfigFullOverride(input.configuration),
                                        file_config.value)]
                   /\ pc' = "file_metadata"
              ELSE /\ output' = output
                   /\ pc' = "file_err"
    /\ UNCHANGED <<stream, results, input, remaining, notConfig>>

\* SingleFormulaFile::read_from, line 33:
\* parse_metadata_as_vec(reader, configuration)
FileReadMetadata ==
    /\ pc = "file_metadata"
    /\ \E header \in {MetadataHeaderReadFrom(stream, pos, Len(stream))} :
         \E metadata \in
              {IF header.ok
               THEN ParseMetadataLoop(stream, header.pos,
                        UsizeClamp(header.value.byte_size, Len(stream) + 1),
                        UsizeClamp(header.value.record_count, Len(stream) + 1),
                        <<>>)
               ELSE header} :
           /\ results' = Append(results,
                                [section |-> "metadata",
                                 configuration |-> input.configuration,
                                 res |-> metadata])
           /\ pos' = metadata.pos
           /\ pc' = IF metadata.ok THEN "file_expression" ELSE "file_err"
    /\ UNCHANGED <<stream, input, output, remaining, notConfig>>

\* SingleFormulaFile::read_from, line 35:
\* parse_expression_into_tree(reader, &config)
FileReadExpression ==
    /\ pc = "file_expression"
    /\ \E expression \in {ExprRead(stream, pos, Len(stream))} :
           /\ results' = Append(results,
                                [section |-> "expression",
                                 configuration |-> ConfigOf(output.config),
                                 res |-> expression])
           /\ pos' = expression.pos
           /\ pc' = IF expression.ok THEN "file_done" ELSE "file_err"
    /\ UNCHANGED <<stream, input, output, remaining, notConfig>>

NextFile == FileReadConfiguration \/ FileReadMetadata \/ FileReadExpression

SpecFile == InitFile /\ [][NextFile]_vars

\* the configuration the file's own section sets, merged over the caller's:
\* per option the value the section sets last, else the caller's value
FileMerged ==
    LET set(key) == {i \in DOMAIN input.pairs : input.pairs[i].key = key}
        last(key) == CHOOSE i \in set(key) : \A j \in set(key) : j <= i
        value(key) == IF set(key) = {} THEN input.configuration[key]
                      ELSE input.pairs[last(key)].val
    IN  [integer_format |-> value("integer_format"),
         float_format |-> value("float_format")]

\* C15: when a SingleFormula body is read, the configuration of the file
\* merged over the caller's configuration is the one that both the metadata
\* reader and the expression reader are given.
C15_MergedGovernsBoth ==
    \A i \in DOMAIN results :
        (pc \in {"file_metadata", "file_expression", "file_done", "file_err"}
         /\ results[i].section \in {"metadata", "expression"})
            => results[i].configuration = FileMerged

\* what holds: the expression reader is given the merged configuration
C15_MergedGovernsExpression ==
    \A i \in DOMAIN results :
        (pc \in {"file_done", "file_err"} /\ results[i].section = "expression")
            => results[i].configuration = FileMerged

\* a file that overrides the caller's integer format and is read to its end
C15_Witness ==
    /\ pc = "file_done"
    /\ FileMerged # input.configuration
    /\ Len(results) = 2
    /\ results[2].section = "expression"
    /\ results[2].res.ok

(***************************************************************************)
(* Integer literals, as the expression scenario writes them.               *)
(***************************************************************************)
\* the low w bytes of the value, extended back to 64 bits by the literal's
\* signedness, are the value
Represents(value, w, signed) ==
    LET bytes == ToBeBytes(value, w)
    IN  FromBeBytes(bytes, IF signed /\ bytes[1] >= 128 THEN 255 ELSE 0) = value

\* the smallest of the four widths, in bytes, that represents the value
SmallestWidth(value, signed) ==
    CHOOSE w \in {1, 2, 4, 8} :
        /\ Represents(value, w, signed)
        /\ \A u \in {1, 2, 4, 8} : u < w => ~Represents(value, u, signed)

\* the token of a width in a signedness
WidthToken(w, signed) ==
    (IF signed THEN "SignedIntLiteral" ELSE "UnsignedIntLiteral")
        \o (CASE w = 1 -> "8" [] w = 2 -> "16" [] w = 4 -> "32" [] w = 8 -> "64")

\* the tree is one integer literal and has been written
LiteralWritten ==
    /\ pc \in {"written", "parsed"}
    /\ tree.some
    /\ tree.v.kind \in {"SignedIntLiteral", "UnsignedIntLiteral"}

\* C16: an integer literal is written as the token of the smallest of the
\* 8/16/32/64-bit widths, in its own signedness, that represents its value,
\* followed by a payload of exactly that width that holds the value.
C16_SmallestWidth ==
    LiteralWritten =>
        LET signed == tree.v.kind = "SignedIntLiteral"
            w == SmallestWidth(tree.v.value, signed)
            token == ExprTokenWriteTo(WidthToken(w, signed))
            payload == SubSeq(stream, Len(token) + 1, Len(stream))
        IN  /\ ExprTokenOf(tree.v) = WidthToken(w, signed)
            /\ SubSeq(stream, 1, Len(token)) = token
            /\ Len(payload) = w
            /\ payload = ToBeBytes(tree.v.value, w)

\* the signed value 4 is the 8-bit signed token and one byte
C16_Witness ==
    /\ LiteralWritten
    /\ tree.v = [kind |-> "SignedIntLiteral", value |-> FromNat(4)]
    /\ stream = <<\H30, 4>>

\* a signed literal that needs all 64 bits, and an unsigned one that needs 32
C16_WitnessWide ==
    /\ LiteralWritten
    /\ \/ /\ tree.v.kind = "SignedIntLiteral"
          /\ Len(stream) = 9
       \/ /\ tree.v.kind = "UnsignedIntLiteral"
          /\ Len(stream) = 5

\* C17: the tree of the quadratic formula is written as the 37 bytes of the
\* example, and parsing those 37 bytes gives a tree equal to it.
C17_QuadraticBytes ==
    /\ (pc \in {"written", "parsed"} /\ tree = Some(QuadraticFormula))
           => stream = QuadraticBytes
    /\ pc = "example"
           => parsed.v.ok /\ ExprEq(parsed.v.value, QuadraticFormula)

\* what holds: the two literals are written in their smallest width, as
\* 30 04 and 30 02, those 23 bytes are parsed back to the tree, and the
\* parse of the example's bytes stops at the identifier 0x08, which is no
\* expression token
C17_QuadraticSmallestWidth ==
    /\ (pc \in {"written", "parsed"} /\ tree = Some(QuadraticFormula))
           => stream = <<\H13, \H10, \H17, \H04, \H01, \H22, \H11, \H20, \H04,
                         \H01, \H12, \H30, \H04, \H12, \H04, \H00, \H04, \H02,
                         \H12, \H30, \H02, \H04, \H00>>
    /\ (pc = "parsed" /\ tree = Some(QuadraticFormula))
           => parsed.v.ok /\ ExprEq(parsed.v.value, QuadraticFormula)
    /\ pc = "example"
           => /\ ~parsed.v.ok
              /\ parsed.v.err = "IdentifierNotRecognized"
              /\ pos = 12

(***************************************************************************)
(* Decoding with a composer (v0/expr/read_from.rs, v0/expr/traits.rs).     *)
(* A composer here is a record: default says whether it implements         *)
(* compose_default ("tree": the expression itself becomes the value) or    *)
(* leaves the trait's ("not_implemented"); ok are the per-kind methods it  *)
(* implements with success, err those it implements with its own error.    *)
(* calls is what the composer has been asked so far, in order.             *)
(***************************************************************************)
\* the composer method each reader calls for its kind of node
ComposeFunctionName(kind) ==
    CASE kind = "TrueLiteral" -> "compose_true_literal"
      [] kind = "FalseLiteral" -> "compose_false_literal"
      [] kind = "Variable" -> "compose_variable"
      [] kind = "Negation" -> "compose_negation"
      [] kind = "SquareRoot" -> "compose_square_root"
      [] kind = "Square" -> "compose_square"
      [] kind = "CubeRoot" -> "compose_cube_root"
      [] kind = "Cube" -> "compose_cube"
      [] kind = "Reciprocal" -> "compose_reciprocal"
      [] kind = "Addition" -> "compose_addition"
      [] kind = "Subtraction" -> "compose_subtraction"
      [] kind = "Multiplication" -> "compose_multiplication"
      [] kind = "Division" -> "compose_division"
      [] kind = "IntDivision" -> "compose_int_division"
      [] kind = "IntRoot" -> "compose_int_root"
      [] kind = "Root" -> "compose_root"
      [] kind = "Power" -> "compose_power"
      [] kind = "Modulo" -> "compose_modulo"
      [] kind = "UnsignedIntLiteral" -> "compose_unsigned_int_literal"
      [] kind = "SignedIntLiteral" -> "compose_signed_int_literal"
      [] kind = "BinaryFloat32Literal" -> "compose_binary_float_32_literal"
      [] kind = "BinaryFloat64Literal" -> "compose_binary_float_64_literal"

\* trait Composer: the methods compose_expr! declares, each with the default
\* body self.compose_default(expr)
ComposerTrait ==
    {"compose_variable", "compose_true_literal", "compose_false_literal",
     "compose_float_literal", "compose_signed_int_literal",
     "compose_unsigned_int_literal", "compose_addition", "compose_subtraction",
     "compose_multiplication", "compose_division", "compose_int_division",
     "compose_modulo", "compose_power", "compose_negation", "compose_root",
     "compose_int_root", "compose_square", "compose_cube",
     "compose_square_root", "compose_cube_root", "compose_reciprocal"}

\* Err(ExprReadWithComposerError::variant(err))
ExprReadFailed(variant, err, p, calls) ==
    [ok |-> FALSE, variant |-> variant, err |-> err, pos |-> p, calls |-> calls]

\* mutant: the composer's error is handed on as a read error
Compose_AsReadError(composer, name, expr, p, calls) ==
    IF name \notin ComposerTrait
    THEN ExprReadFailed("NoSuchMethod", name, p, calls)
    ELSE LET made == Append(calls, [name |-> name, expr |-> expr])
         IN  IF name \in composer.err
             THEN ExprReadFailed("ReadError", "CustomError", p, made)
             ELSE IF name \in composer.ok \/ composer.default = "tree"
             THEN [ok |-> TRUE, value |-> expr, pos |-> p, calls |-> made]
             ELSE ExprReadFailed("ReadError", "ComposeNotImplemented", p, made)

\* composer.name(expr), and what the reader makes of its result.  A method
\* the composer does not implement is the trait's, which calls
\* compose_default; the trait's compose_default is
\* Err(DefaultError(ComposeNotImplemented)).  A method the trait does not
\* declare cannot be called at all.
Compose(composer, name, expr, p, calls) ==
    IF name \notin ComposerTrait
    THEN ExprReadFailed("NoSuchMethod", name, p, calls)
    ELSE LET made == Append(calls, [name |-> name, expr |-> expr])
         IN  IF name \in composer.err
             THEN ExprReadFailed("ComposeError", "CustomError", p, made)
             ELSE IF name \in composer.ok \/ composer.default = "tree"
             THEN [ok |-> TRUE, value |-> expr, pos |-> p, calls |-> made]
             ELSE ExprReadFailed("ComposeError", "ComposeNotImplemented", p, made)

RECURSIVE ExprReadWithComposer(_, _, _, _, _)

\* mutant: the two operands are taken in the other order
ExprReadBinary_Swapped(s, p, lim, composer, calls, token) ==
    Bind(ExprReadWithComposer(s, p, lim, composer, calls), LAMBDA rhs :
        IF ~rhs.ok THEN rhs
        ELSE Bind(ExprReadWithComposer(s, rhs.pos, lim, composer, rhs.calls),
                  LAMBDA lhs :
            IF ~lhs.ok THEN lhs
            ELSE Compose(composer, ComposeFunctionName(token),
                         [kind |-> token, lhs |-> lhs.value, rhs |-> rhs.value],
                         lhs.pos, lhs.calls)))

\* impl_read_from_binary_expr!: lhs, then rhs, then the composer
ExprReadBinary(s, p, lim, composer, calls, token) ==
    Bind(ExprReadWithComposer(s, p, lim, composer, calls), LAMBDA lhs :
        IF ~lhs.ok THEN lhs
        ELSE Bind(ExprReadWithComposer(s, lhs.pos, lim, composer, lhs.calls),
                  LAMBDA rhs :
            IF ~rhs.ok THEN rhs
            ELSE Compose(composer, ComposeFunctionName(token),
                         [kind |-> token, lhs |-> lhs.value, rhs |-> rhs.value],
                         rhs.pos, rhs.calls)))

\* try_read_with_composer for Expr<S> and, by token, for the kind it names
ExprReadWithComposer(s, p, lim, composer, calls) ==
    Bind(ExprTokenReadFrom(s, p, lim), LAMBDA token :
        LET t == token.value
            literal == CASE t \in {"SignedIntLiteral8", "UnsignedIntLiteral8"} -> 1
                         [] t \in {"SignedIntLiteral16", "UnsignedIntLiteral16"} -> 2
                         [] t \in {"SignedIntLiteral32", "UnsignedIntLiteral32",
                                   "BinaryFloatLiteral32"} -> 4
                         [] OTHER -> 8
            kind == CASE t \in {"SignedIntLiteral8", "SignedIntLiteral16",
                                "SignedIntLiteral32", "SignedIntLiteral64"}
                             -> "SignedIntLiteral"
                      [] t \in {"UnsignedIntLiteral8", "UnsignedIntLiteral16",
                                "UnsignedIntLiteral32", "UnsignedIntLiteral64"}
                             -> "UnsignedIntLiteral"
                      [] t = "BinaryFloatLiteral32" -> "BinaryFloat32Literal"
                      [] t = "BinaryFloatLiteral64" -> "BinaryFloat64Literal"
                      [] OTHER -> t
        IN  IF ~token.ok
            THEN ExprReadFailed("ReadError", token.err, token.pos, calls)
            ELSE IF t \in ExprUnaryTokens
            THEN Bind(ExprReadWithComposer(s, token.pos, lim, composer, calls),
                      LAMBDA inner_expr :
                     IF ~inner_expr.ok THEN inner_expr
                     ELSE Compose(composer, ComposeFunctionName(t),
                                  [kind |-> t, inner |-> inner_expr.value],
                                  inner_expr.pos, inner_expr.calls))
            ELSE IF t \in ExprBinaryTokens
            THEN ExprReadBinary(s, token.pos, lim, composer, calls, t)
            ELSE IF t \in {"TrueLiteral", "FalseLiteral"}
            THEN Compose(composer, ComposeFunctionName(t), [kind |-> t],
                         token.pos, calls)
            ELSE IF t = "Variable"
            THEN Bind(VleReadFrom(s, token.pos, lim), LAMBDA enum_value :
                     IF ~enum_value.ok
                     THEN ExprReadFailed("ReadError", enum_value.err,
                                         enum_value.pos, calls)
                     ELSE Compose(composer, ComposeFunctionName(t),
                                  [kind |-> t, id |-> enum_value.value],
                                  enum_value.pos, calls))
            ELSE Bind(ReadExact(s, token.pos, lim, literal), LAMBDA bytes :
                     IF ~bytes.ok
                     THEN ExprReadFailed("ReadError", bytes.err, bytes.pos, calls)
                     ELSE Compose(composer, ComposeFunctionName(kind),
                              [kind |-> kind,
                               value |->
                                 CASE kind = "BinaryFloat32Literal"
                                        -> F32FromBeBytes(bytes.value)
                                   [] kind = "BinaryFloat64Literal"
                                        -> F64FromBeBytes(bytes.value)
                                   [] kind = "SignedIntLiteral"
                                        -> FromBeBytes(bytes.value,
                                               IF bytes.value[1] >= 128
                                               THEN 255 ELSE 0)
                                   [] OTHER -> FromBeBytes(bytes.value, 0)],
                              bytes.pos, calls)))

(***************************************************************************)
(* Composer scenario: a tree is written with write_expression_tree, the    *)
(* bytes, whole or short of their last byte, are parsed with               *)
(* parse_expression and a composer of the caller's.                        *)
(***************************************************************************)
InitCompose ==
    /\ input \in
         [tree : ExprLeaves
                 \cup {[kind |-> t, inner |-> a] :
                          t \in ExprUnaryTokens, a \in ExprOperands}
                 \cup {[kind |-> t, lhs |-> a, rhs |-> b] :
                          t \in ExprBinaryTokens,
                          a \in ExprOperands,
                          b \in ExprOperands
                                \cup {[kind |-> "Negation",
                                       inner |-> [kind |-> "TrueLiteral"]]}}
                 \cup {QuadraticFormula},
          composer : [default : {"tree", "not_implemented"},
                      ok : {{}, {"compose_variable", "compose_true_literal"},
                            ComposerTrait},
                      err : {{}, {"compose_negation"}, {"compose_addition"},
                             {"compose_signed_int_literal"}}],
          cut : BOOLEAN]
    /\ input.composer.ok \cap input.composer.err = {}
    /\ stream = LET bytes == ExprWrite(input.tree)
                IN  IF input.cut THEN SubSeq(bytes, 1, Len(bytes) - 1) ELSE bytes
    /\ pos = 0
    /\ pc = "compose"
    /\ parsed = None
    /\ tree = None
    /\ results = <<>>
    /\ pad = 0
    /\ plain = None
    /\ ord = None
    /\ toks = <<>>
    /\ written = <<>>
    /\ remaining = 0
    /\ output = None
    /\ limited_reader = 0

\* parse_expression(&mut reader, &DEFAULT_CONFIG, &mut composer)
ParseExpression ==
    /\ pc = "compose"
    /\ \E expr \in {ExprReadWithComposer(stream, pos, Len(stream),
                                         input.composer, <<>>)} :
           parsed' = Some(expr) /\ pos' = expr.pos
    /\ pc' = "composed"
    /\ UNCHANGED <<stream, tree, input, notExpr>>

SpecCompose == InitCompose /\ [][ParseExpression]_vars

\* the nodes of a tree in post-order, lhs before rhs, each as the call the
\* composer gets for it
RECURSIVE PostOrder(_)
PostOrder(expr) ==
    (CASE expr.kind \in ExprUnaryTokens -> PostOrder(expr.inner)
       [] expr.kind \in ExprBinaryTokens ->
             PostOrder(expr.lhs) \o PostOrder(expr.rhs)
       [] OTHER -> <<>>)
    \o <<[name |-> ComposeFunctionName(expr.kind), expr |-> expr]>>

\* the composer of the scenario rejects the call
Rejects(name) ==
    \/ name \in input.composer.err
    \/ name \notin input.composer.ok /\ input.composer.default = "not_implemented"

\* the calls of the post-order the composer does not reject
Accepted(calls) == {i \in DOMAIN calls : ~Rejects(calls[i].name)}

\* C18: the composer is called once per node, in post-order of the encoded
\* tree with the left-hand child before the right-hand one: what it has been
\* asked is a prefix of the post-order, all of it when the decode succeeds,
\* and every call carries the node with its children already composed.
C18_PostOrder ==
    pc = "composed" =>
        LET calls == parsed.v.calls
            want == PostOrder(input.tree)
        IN  /\ Len(calls) <= Len(want)
            /\ calls = SubSeq(want, 1, Len(calls))
            /\ parsed.v.ok => calls = want /\ parsed.v.value = input.tree

\* the quadratic formula, decoded to its end: sixteen calls
C18_Witness ==
    /\ pc = "composed"
    /\ input.tree = QuadraticFormula
    /\ parsed.v.ok
    /\ Len(parsed.v.calls) = 16
    /\ parsed.v.calls[1].name = "compose_variable"
    /\ parsed.v.calls[2].name = "compose_negation"
    /\ parsed.v.calls[16].name = "compose_division"

\* C19: when a composer method fails the decode stops with that call, the
\* last the composer gets, and returns the composer's error in the
\* compose-error variant; a failure of the wire format is returned in the
\* read-error variant, with no composer call rejected; neither is reported
\* as the other.
C19_ComposeErrorDistinct ==
    pc = "composed" =>
        LET calls == parsed.v.calls
            rejected == DOMAIN calls \ Accepted(calls)
        IN  /\ rejected # {} =>
                  /\ ~parsed.v.ok
                  /\ parsed.v.variant = "ComposeError"
                  /\ rejected = {Len(calls)}
                  /\ parsed.v.err =
                        IF calls[Len(calls)].name \in input.composer.err
                        THEN "CustomError" ELSE "ComposeNotImplemented"
            /\ (~parsed.v.ok /\ parsed.v.variant = "ComposeError")
                  => rejected # {}
            /\ (~parsed.v.ok /\ parsed.v.variant = "ReadError")
                  => /\ rejected = {}
                     /\ input.cut \/ HasUnsigned64(input.tree)
                     /\ parsed.v.err \in {"UnexpectedEof", "IdentifierNotRecognized"}

\* the composer rejects the negation, the second node of the quadratic
\* formula: two calls, the rest of the bytes unread
C19_Witness ==
    /\ pc = "composed"
    /\ input.tree = QuadraticFormula
    /\ input.composer.err = {"compose_negation"}
    /\ ~parsed.v.ok
    /\ parsed.v.variant = "ComposeError"
    /\ parsed.v.err = "CustomError"
    /\ Len(parsed.v.calls) = 2
    /\ pos = 5

\* a read error behind composer calls that succeeded
C19_WitnessRead ==
    /\ pc = "composed"
    /\ input.cut
    /\ ~parsed.v.ok
    /\ parsed.v.variant = "ReadError"
    /\ Len(parsed.v.calls) > 0

\* a composer that implements nothing
ImplementsNothing ==
    /\ input.composer.default = "not_implemented"
    /\ input.composer.ok = {}
    /\ input.composer.err = {}

\* C20: with a composer that handles no node kind, the decode of a node of
\* any kind the decoder reads, the integer and float literals among them,
\* fails with the composition error ComposeNotImplemented.
C20_DefaultFallbackEveryKind ==
    (pc = "composed" /\ ImplementsNothing
     /\ ~input.cut /\ ~HasUnsigned64(input.tree))
        => /\ ~parsed.v.ok
           /\ parsed.v.variant = "ComposeError"
           /\ parsed.v.err = "ComposeNotImplemented"

\* what holds: so it is for every kind but the two float literals, whose
\* readers call compose_binary_float_32_literal and
\* compose_binary_float_64_literal, methods the trait does not declare
C20_FallbackButFloats ==
    (pc = "composed" /\ ImplementsNothing
     /\ ~input.cut /\ ~HasUnsigned64(input.tree))
        => /\ ~parsed.v.ok
           /\ IF PostOrder(input.tree)[1].expr.kind
                    \in {"BinaryFloat32Literal", "BinaryFloat64Literal"}
              THEN parsed.v.variant = "NoSuchMethod"
              ELSE /\ parsed.v.variant = "ComposeError"
                   /\ parsed.v.err = "ComposeNotImplemented"
                   /\ Len(parsed.v.calls) = 1

(***************************************************************************)
(* Unknown-token scenario: parse_expression on a stream that has, where an *)
(* expression token is due, an identifier of no expression token: as the   *)
(* root, as the operand of a negation, or as the left or right operand of  *)
(* an addition whose other operand is a written tree.                      *)
(***************************************************************************)
InitUnknownToken ==
    /\ input \in
         [tree : ExprOperands \cup {QuadraticFormula},
          composer : [default : {"tree", "not_implemented"},
                      ok : {{}, ComposerTrait},
                      err : {{}, {"compose_variable"}}],
          identifier : {<<\H08>>, <<\H05>>, <<\H7F>>, <<\H3D>>, <<\H81, 0>>,
                        <<128, \H08>>, <<\H87, \H4F>>,
                        <<\H81, \H80, \H80, \H80, \H80, 0>>,
                        <<\H82>> \o Rep(128, 8) \o <<0>>,
                        Rep(255, MaxFill) \o <<\H7F>>},
          where : {"root", "inner", "lhs", "rhs"},
          tail : {<<>>, <<\H04, 0>>}]
    /\ input.composer.ok \cap input.composer.err = {}
    /\ stream = (CASE input.where = "root" -> <<>>
                   [] input.where = "inner" -> <<\H17>>
                   [] input.where = "lhs" -> <<\H10>>
                   [] input.where = "rhs" -> <<\H10>> \o ExprWrite(input.tree))
                \o input.identifier
                \o (IF input.where = "lhs" THEN ExprWrite(input.tree) ELSE <<>>)
                \o input.tail
    /\ pos = 0
    /\ pc = "compose"
    /\ parsed = None
    /\ tree = None
    /\ results = <<>>
    /\ pad = 0
    /\ plain = None
    /\ ord = None
    /\ toks = <<>>
    /\ written = <<>>
    /\ remaining = 0
    /\ output = None
    /\ limited_reader = 0

SpecUnknownToken == InitUnknownToken /\ [][ParseExpression]_vars

\* where the identifier starts, and the calls the composer gets before the
\* decoder comes to it
UnknownAt ==
    IF input.where = "root" THEN 0
    ELSE IF input.where = "rhs" THEN 1 + Len(ExprWrite(input.tree)) ELSE 1

CallsBefore == IF input.where = "rhs" THEN PostOrder(input.tree) ELSE <<>>

\* C21: an identifier that is no expression token, where a token is due,
\* makes the decode fail with a read error; the decoder has read the
\* identifier and nothing after it, and the composer has been asked nothing
\* for it nor for the node it would have been an operand of.
C21_UnknownTokenIsReadError ==
    (pc = "composed" /\ Accepted(CallsBefore) = DOMAIN CallsBefore) =>
        /\ ~parsed.v.ok
        /\ parsed.v.variant = "ReadError"
        /\ parsed.v.err \in {"IdentifierNotRecognized", "IdentifierTooLarge"}
        /\ pos = UnknownAt + Len(input.identifier)
        /\ parsed.v.calls = CallsBefore

\* an identifier of machine width behind a composed operand, bytes after it
C21_Witness ==
    /\ pc = "composed"
    /\ input.where = "rhs"
    /\ input.tree = QuadraticFormula
    /\ input.identifier = <<\H08>>
    /\ input.tail # <<>>
    /\ parsed.v.err = "IdentifierNotRecognized"
    /\ Len(parsed.v.calls) = 16
    /\ pos = 25

\* an identifier too large for machine width
C21_WitnessTooLarge ==
    /\ pc = "composed"
    /\ input.where = "inner"
    /\ parsed.v.variant = "ReadError"
    /\ parsed.v.err = "IdentifierTooLarge"
    /\ parsed.v.calls = <<>>

(***************************************************************************)
(* Declared byte counts and the end of the stream, in the metadata         *)
(* scenario.                                                               *)
(***************************************************************************)
\* the i-th record read is a reserved or unknown record (its identifier is
\* neither 1 nor 2) whose length is a varint of at most two digits, and the
\* stream ends before the bytes that length declares
PayloadOwed(i) ==
    LET k == FirstClear(stream, results[i].start)
        l == FirstClear(stream, k)
    IN  /\ k > 0
        /\ NumBits(DigitsOf(SubSeq(stream, results[i].start + 1, k))) <= 64
        /\ DigitsAt(results[i].start) \notin {<<1>>, <<2>>}
        /\ l > 0
        /\ Len(DigitsAt(k)) <= 2
        /\ l + DigitsNat(DigitsAt(k)) > Len(stream)

\* C22 (for the payload of a reserved or unknown metadata record): when the
\* stream ends while bytes of the declared length are owed, the read fails
\* with a stream error, and a record that is returned has as many bytes of
\* data as its length declares.
C22_OwedBytesAreStreamError ==
    \A i \in DOMAIN results :
        PayloadOwed(i) =>
            /\ ~results[i].res.ok
            /\ results[i].res.err = "UnexpectedEof"

\* what holds: such a record is returned, when its length varint lies in
\* the section, with the bytes the stream still has, fewer than declared
C22_ShortPayloadReturned ==
    \A i \in DOMAIN results :
        (PayloadOwed(i) /\ results[i].res.ok) =>
            LET k == FirstClear(stream, results[i].start)
            IN  /\ Len(results[i].res.value.data) < DigitsNat(DigitsAt(k))
                /\ results[i].res.pos <= Len(stream)

\* what holds for a configuration blob that is skipped (skip_bytes reads the
\* bytes one by one with read_exact): a pair is never read beyond the
\* stream, and a blob that is the last pair and declares more bytes than
\* the stream holds is an UnexpectedEof
C22_SkippedBlobIsStreamError ==
    \A i \in DOMAIN results :
        /\ results[i].res.pos <= Len(stream)
        /\ (i = Len(input.pairs) /\ input.pairs[i].class = "short")
               => ~results[i].res.ok /\ results[i].res.err = "UnexpectedEof"

C23_WitnessEmpty ==
    /\ pc = "name_rewritten"
    /\ results[1].name = <<>>
    /\ written = <<(<<1, 0>>), (<<1, 0>>)>>

(***************************************************************************)
(* Overridable configuration scenario.  A configuration starts as          *)
(* OverridableConfig::default(); the caller overrides single options and   *)
(* merges another configuration over it, up to MaxOverrides times.         *)
(* results keeps, for every call, the configuration before it and what was *)
(* supplied.                                                               *)
(***************************************************************************)
MaxOverrides == 3

InitOverride ==
    /\ output = ConfigDefault
    /\ input \in [integer_format : {None} \cup {Some(f) : f \in {"I64", "I8", "U64"}},
                   float_format : {None} \cup {Some(f) : f \in {"F64", "F32"}}]
    /\ results = <<>>
    /\ pc = "override"
    /\ stream = <<>>
    /\ written = <<>>
    /\ pos = 0
    /\ remaining = 0
    /\ limited_reader = 0
    /\ pad = 0
    /\ plain = None
    /\ ord = "Equal"
    /\ toks = <<>>
    /\ tree = None
    /\ parsed = None

\* OverridableConfig::override_integer_format
OverrideIntegerFormat ==
    /\ Len(results) < MaxOverrides
    /\ \E format \in {"I64", "I8", "U64"} :
           /\ output' = [output EXCEPT !.integer_format = Some(format)]
           /\ results' = Append(results,
                  [before |-> output,
                   other |-> [ConfigDefault EXCEPT !.integer_format = Some(format)]])
    /\ UNCHANGED <<stream, pos, pc, written, input, remaining, notConfig>>

\* OverridableConfig::override_float_format
OverrideFloatFormat ==
    /\ Len(results) < MaxOverrides
    /\ \E format \in {"F64", "F32"} :
           /\ output' = [output EXCEPT !.float_format = Some(format)]
           /\ results' = Append(results,
                  [before |-> output,
                   other |-> [ConfigDefault EXCEPT !.float_format = Some(format)]])
    /\ UNCHANGED <<stream, pos, pc, written, input, remaining, notConfig>>

\* a.override_with(&b), b being the input
OverrideWithOther ==
    /\ Len(results) < MaxOverrides
    /\ output' = OverrideWith(output, input)
    /\ results' = Append(results, [before |-> output, other |-> input])
    /\ UNCHANGED <<stream, pos, pc, written, input, remaining, notConfig>>

NextOverride == OverrideIntegerFormat \/ OverrideFloatFormat \/ OverrideWithOther

SpecOverride == InitOverride /\ [][NextOverride]_vars

\* is_integer_format_overridden, is_float_format_overridden
IsOverridden(self) ==
    [integer_format |-> self.integer_format.some,
     float_format |-> self.float_format.some]

\* the configuration after the i-th call
AfterCall(i) == IF i = Len(results) THEN output ELSE results[i + 1].before

\* C24: after a.override_with(b), an option that b has set is reported by a
\* with b's value and as set, and an option that b has not set keeps a's
\* value and a's set or unset status; and an option is reported as set
\* exactly when a value was supplied for it by some call, whether or not
\* that value is the default.
C24_OverrideWith ==
    /\ \A i \in DOMAIN results :
          LET a == results[i].before
              b == results[i].other
              after == AfterCall(i)
          IN  /\ IF b.integer_format.some
                 THEN /\ ConfigOf(after).integer_format = b.integer_format.v
                      /\ IsOverridden(after).integer_format
                 ELSE /\ ConfigOf(after).integer_format = ConfigOf(a).integer_format
                      /\ IsOverridden(after).integer_format
                             = IsOverridden(a).integer_format
              /\ IF b.float_format.some
                 THEN /\ ConfigOf(after).float_format = b.float_format.v
                      /\ IsOverridden(after).float_format
                 ELSE /\ ConfigOf(after).float_format = ConfigOf(a).float_format
                      /\ IsOverridden(after).float_format
                             = IsOverridden(a).float_format
    /\ IsOverridden(output).integer_format
          <=> \E i \in DOMAIN results : results[i].other.integer_format.some
    /\ IsOverridden(output).float_format
          <=> \E i \in DOMAIN results : results[i].other.float_format.some

\* a has the integer format I8 set and no float format; b supplies the
\* default float format F64 and no integer format: a keeps I8, and reports
\* the float format as set although its value is the default's
C24_Witness ==
    /\ Len(results) = 2
    /\ results[2].before = [integer_format |-> Some("I8"), float_format |-> None]
    /\ results[2].other = [integer_format |-> None, float_format |-> Some("F64")]
    /\ input = results[2].other
    /\ output = [integer_format |-> Some("I8"), float_format |-> Some("F64")]
    /\ ConfigOf(output).float_format = ConfigOf(results[2].before).float_format

\* b sets nothing: a is left as it was, with its unset option unset
C24_WitnessUnset ==
    /\ Len(results) = 2
    /\ input = ConfigDefault
    /\ results[2].other = input
    /\ results[2].before = [integer_format |-> None, float_format |-> Some("F32")]
    /\ output = results[2].before
    /\ ~IsOverridden(output).integer_format

(***************************************************************************)
(* Custom-reserved record scenario: the caller constructs a record with    *)
(* CustomReservedMetadataRecordObj::new from an identifier at or near an   *)
(* end of a band of the metadata token table, and some data.               *)
(***************************************************************************)

\* CustomReservedMetadataRecordObj::new; the error is
\* MetadataIdentifierOutOfRangeError::custom_key(identifier)
CustomReservedNew(identifier, data) ==
    IF ~(\H100000 <= identifier /\ identifier < \H1FFFFF)
    THEN Err([identifier |-> identifier,
              range |-> [start |-> \H100000, end |-> \H1FFFFF]])
    ELSE Ok([kind |-> "ReservedCustom", id |-> identifier, data |-> data])

InitCustom ==
    /\ input \in [identifier : {\H0, \H01, \H02, \H3FFFF, \H40000, \HFFFFF,
                                \H100000, \H100001, \H100100, \H1FFFFE,
                                \H1FFFFF, \H200000, \H200001, \H7FFFFFFF},
                   data : {<<>>, <<\H12, \H34>>, <<0>>, <<255, 255, 255>>}]
    /\ output = None
    /\ pc = "custom"
    /\ results = <<>>
    /\ stream = <<>>
    /\ written = <<>>
    /\ pos = 0
    /\ remaining = 0
    /\ limited_reader = 0
    /\ pad = 0
    /\ plain = None
    /\ ord = "Equal"
    /\ toks = <<>>
    /\ tree = None
    /\ parsed = None

\* let record = CustomReservedMetadataRecordObj::new(identifier, data)
CustomNew ==
    /\ pc = "custom"
    /\ output' = CustomReservedNew(input.identifier, input.data)
    /\ pc' = "constructed"
    /\ UNCHANGED <<stream, pos, results, written, input, remaining, notConfig>>

SpecCustom == InitCustom /\ [][CustomNew]_vars

\* the metadata token table classifies the identifier as custom-reserved
IsCustomReserved(identifier) ==
    LET token == MetadataTokenTryFromUsize(FromNat(identifier))
    IN  token.ok /\ token.v.kind = "ReservedCustom"

\* C25: CustomReservedMetadataRecordObj::new succeeds exactly for the
\* identifiers 0x100000..=0x1FFFFF, which is the range its error reports and
\* the range the metadata token table classifies as custom-reserved, and
\* gives the out-of-range error for every other identifier.
C25_NewAcceptsCustomRange ==
    pc = "constructed" =>
        /\ output.ok <=> input.identifier \in \H100000..\H1FFFFF
        /\ output.ok <=> IsCustomReserved(input.identifier)
        /\ ~output.ok =>
               /\ output.err.identifier = input.identifier
               /\ input.identifier \notin output.err.range.start..output.err.range.end

\* what the code does: new succeeds for 0x100000..=0x1FFFFE; the identifier
\* 0x1FFFFF, which the token table classifies as custom-reserved, is
\* refused with an error that reports a range the identifier lies in
C25_NewRefusesLastIdentifier ==
    pc = "constructed" =>
        /\ output.ok <=> input.identifier \in \H100000..\H1FFFFE
        /\ output.ok => /\ IsCustomReserved(input.identifier)
                        /\ output.v.id = input.identifier
                        /\ output.v.data = input.data
        /\ ~output.ok =>
               /\ output.err.identifier = input.identifier
               /\ output.err.range = [start |-> \H100000, end |-> \H1FFFFF]
        /\ input.identifier = \H1FFFFF =>
               /\ ~output.ok
               /\ IsCustomReserved(input.identifier)
               /\ input.identifier \in output.err.range.start..output.err.range.end

\* C26: the bytes that write_metadata_from_vec writes for a list of records,
\* read back with parse_metadata_as_vec, give an equal list in the same
\* order, and the cursor is at the end of the written bytes.
C26_VecRoundTrip ==
    pc = "vec_read" =>
        /\ output.ok
        /\ output.value = input.records
        /\ pos = Len(written[1])

\* what the code does: only the empty list comes back; for every other list
\* the total_byte_size in the header ends the section before the end of the
\* written records, so the cursor stops short of it and the list read back,
\* if there is one, is not the list written
C26_OnlyEmptyListRoundTrips ==
    pc = "vec_read" =>
        IF input.records = <<>>
        THEN output.ok /\ output.value = <<>> /\ pos = Len(written[1])
        ELSE /\ pos < Len(written[1])
             /\ ~(output.ok /\ output.value = input.records)

\* the key identifier of the record does not fit 64 bits
KeyTooLarge == NumBits(DigitsOf(input.key)) > 64

\* C27: a metadata record whose key identifier is too large for the machine
\* width is read as an Unknown record, its declared byte_length being
\* consumed: whenever its length can be read, the read succeeds.
C27_TooLargeKeyIsUnknown ==
    (KeyTooLarge /\ results # <<>> /\ LengthReadable) =>
        /\ results[1].res.ok
        /\ results[1].res.value.kind = "Unknown"

\* what the code does: the record is rejected with IdentifierTooLarge, the
\* cursor is left right behind the identifier, and nothing of the record's
\* length or data is consumed
C27_TooLargeKeyIsRejected ==
    (KeyTooLarge /\ results # <<>>) =>
        /\ ~results[1].res.ok
        /\ results[1].res.err = "IdentifierTooLarge"
        /\ results[1].res.pos = results[1].start + input.pad + Len(input.key)

(***************************************************************************)
(* Trailing bytes scenario: the bytes of one written tree, behind up to    *)
(* MaxPad bytes 0x80 and in front of other bytes of the stream (nothing,   *)
(* another expression, a lone operator, bytes that are no token), are      *)
(* parsed with parse_expression.                                           *)
(***************************************************************************)
InitTrailing ==
    /\ input \in
         [tree : ExprLeaves
                 \cup {[kind |-> t, inner |-> a] :
                          t \in ExprUnaryTokens, a \in ExprOperands}
                 \cup {[kind |-> t, lhs |-> a, rhs |-> b] :
                          t \in {"Addition", "Power"},
                          a \in ExprOperands,
                          b \in ExprOperands
                                \cup {[kind |-> "Negation",
                                       inner |-> [kind |-> "TrueLiteral"]]}}
                 \cup {QuadraticFormula},
          composer : [default : {"tree", "not_implemented"},
                      ok : {{}, ComposerTrait},
                      err : {{}, {"compose_negation"}}],
          pad : {0, MaxPad},
          tail : {<<>>, <<\H04, 0>>, <<\H10>>, <<\H08>>, <<255>>, <<128, 128>>}]
    /\ input.composer.ok \cap input.composer.err = {}
    /\ stream = Rep(128, input.pad) \o ExprWrite(input.tree) \o input.tail
    /\ pos = 0
    /\ pc = "compose"
    /\ parsed = None
    /\ tree = None
    /\ results = <<>>
    /\ pad = 0
    /\ plain = None
    /\ ord = None
    /\ toks = <<>>
    /\ written = <<>>
    /\ remaining = 0
    /\ output = None
    /\ limited_reader = 0

SpecTrailing == InitTrailing /\ [][ParseExpression]_vars

\* C28: a successful expression decode consumes exactly the bytes of one
\* complete expression in prefix notation, the root token with its payload
\* and all its descendants, and leaves every byte behind it unread: the
\* cursor is at the end of the bytes written for the tree, and the bytes
\* from the cursor on are the bytes that followed the expression.
C28_ConsumesOneExpression ==
    (pc = "composed" /\ parsed.v.ok) =>
        /\ pos = input.pad + Len(ExprWrite(input.tree))
        /\ SubSeq(stream, pos + 1, Len(stream)) = input.tail
        /\ Len(parsed.v.calls) = Len(PostOrder(input.tree))

\* the quadratic formula with a second expression behind it
C28_Witness ==
    /\ pc = "composed" /\ parsed.v.ok
    /\ input.tree = QuadraticFormula
    /\ input.tail = <<\H04, 0>>
    /\ input.pad = 0
    /\ pos = 23 /\ Len(stream) = 25

\* a literal of two payload bytes behind padding, with a lone operator
\* token behind it
C28_WitnessLiteral ==
    /\ pc = "composed" /\ parsed.v.ok
    /\ input.tree.kind = "UnsignedIntLiteral"
    /\ input.pad = MaxPad
    /\ input.tail = <<\H10>>
    /\ stream = Rep(128, MaxPad) \o <<\H39, 1, 0, \H10>>
    /\ pos = MaxPad + 3

(***************************************************************************)
(* Record bytes scenario: NameMetadataRecordObj::read_from or              *)
(* VariableNameMetadataRecordObj::read_from is called on a reader that     *)
(* holds a byte_length, the bytes of some fields and a tail.  The          *)
(* byte_length is chosen freely: the fields may end before the record      *)
(* does, run beyond it, or the reader may end inside the record.           *)
(***************************************************************************)
InitRecordBytes ==
    /\ input \in [kind : {"Name", "VariableName"},
                   byte_length : 0..6,
                   fields : {<<>>, <<0>>, <<1, 70>>, <<2, 72, 105>>,
                             <<5, 72, 105>>, <<1, 1, 120>>, <<1, 2, 120, 49>>,
                             <<1, 9, 120>>, <<1, 255>>, <<129>>,
                             <<128, 3, 2, 72, 105>>},
                   tail : {<<>>, <<7, 7, 7>>}]
    /\ stream = <<input.byte_length>> \o input.fields \o input.tail
    /\ pos = 0
    /\ pc = "record"
    /\ output = None
    /\ results = <<>>
    /\ written = <<>>
    /\ remaining = 0
    /\ limited_reader = 0
    /\ pad = 0
    /\ plain = None
    /\ ord = "Equal"
    /\ toks = <<>>
    /\ tree = None
    /\ parsed = None

\* NameMetadataRecordObj::read_from(&mut reader, ..) or
\* VariableNameMetadataRecordObj::read_from(&mut reader, ..)
RecordObjReadFrom ==
    /\ pc = "record"
    /\ \E record \in {IF input.kind = "Name"
                       THEN NameReadFrom(stream, pos, Len(stream))
                       ELSE VariableNameReadFrom(stream, pos, Len(stream))} :
           /\ output' = record
           /\ pos' = record.pos
    /\ pc' = "record_read"
    /\ UNCHANGED <<stream, results, written, input, remaining, notConfig>>

SpecRecordBytes == InitRecordBytes /\ [][RecordObjReadFrom]_vars

\* the end of the record: its byte_length varint and byte_length bytes
RecordEnd == 1 + input.byte_length

\* C29: reading a Name or a VariableName record never moves the cursor
\* beyond the record's declared byte_length, and on success the cursor is
\* exactly at the end of those byte_length bytes, also when the fields are
\* followed by more bytes of the record or state a string longer than the
\* record.
C29_CursorAtRecordEnd ==
    pc = "record_read" =>
        /\ pos <= RecordEnd
        /\ output.ok => pos = RecordEnd

\* what the code does: the cursor never passes the end of the record, and
\* on success it is at the end of the record or, when the reader ends
\* inside the record, at the end of the reader; a string that states more
\* bytes than the record has left is returned with the bytes of the record
C29_CursorAtRecordOrReaderEnd ==
    pc = "record_read" =>
        /\ pos <= RecordEnd
        /\ output.ok =>
               /\ pos = IF RecordEnd <= Len(stream) THEN RecordEnd ELSE Len(stream)
               /\ Len(output.value.name) <= input.byte_length
        /\ (output.ok /\ pos # RecordEnd) => Len(stream) < RecordEnd

\* a Name record of 4 bytes whose string states 2 bytes, with one more byte
\* of the record and two bytes of the reader behind it
C29_ReachedSpare ==
    /\ pc = "record_read" /\ output.ok
    /\ stream = <<4, 2, 72, 105, 7, 7, 7>>
    /\ output.value = [kind |-> "Name", name |-> <<72, 105>>]
    /\ pos = 5

\* a Name record of 2 bytes whose string states 5 bytes: one is returned
C29_ReachedLongString ==
    /\ pc = "record_read" /\ output.ok
    /\ stream = <<2, 5, 72, 105, 7, 7, 7>>
    /\ output.value = [kind |-> "Name", name |-> <<72>>]
    /\ pos = 3

\* the iterator of parse_metadata exists, or has been dropped, or
\* parse_metadata_as_vec has returned
Iterating == pc \in {"iter", "iter_end", "dropped"}

\* C30: at every point of a metadata iteration, after any number of next()
\* calls whether they succeeded or failed, the bytes consumed from the
\* stream since the end of the header are at most the declared
\* total_byte_size, and the items yielded are at most record_count.
C30_WithinSectionAndCount ==
    Iterating =>
        /\ Len(TotalDigits) <= 2 => pos - HeaderEnd <= DigitsNat(TotalDigits)
        /\ pos >= HeaderEnd
        /\ Len(results) <= input.count
        /\ pc # "dropped" => Len(results) + remaining = input.count
        /\ (output # None /\ output.ok) => Len(output.value) <= input.count

\* two next() calls on a section declared two bytes shorter than its two
\* records: the first record failed, the second call used up the section,
\* and bytes of the stream are left behind the section
C30_Witness ==
    /\ pc = "iter"
    /\ input.size = "short" /\ input.count = 2 /\ Len(input.records) = 2
    /\ Len(results) = 2 /\ ~results[1].res.ok
    /\ remaining = 0
    /\ pos = HeaderEnd + DigitsNat(TotalDigits)
    /\ pos < Len(stream)

\* the header declares one record and the section holds two: one item is
\* yielded, and the iterator ends with bytes of the section unread
C30_WitnessCount ==
    /\ pc = "iter_end"
    /\ input.count = 1 /\ Len(input.records) = 2 /\ input.size = "exact"
    /\ Len(results) = 1 /\ results[1].res.ok
    /\ limited_reader > 0

====
